---- MODULE Spec2Model ----
(***************************************************************************)
(* A model of the ZIP central-directory reader (hazel::zip::Reader) and of *)
(* the PE/COFF file opener (bela::pe::File) of fcharlie/abslw.             *)
(*                                                                         *)
(* TLC integers are 32-bit.  Every 32- and 64-bit quantity of the code is  *)
(* therefore kept as a "wide" value: four 16-bit limbs, least significant  *)
(* first, which is the value of a uint64_t.  uint16_t values are plain     *)
(* integers.  Bytes are integers in 0..255.                                *)
(***************************************************************************)
EXTENDS Integers, Sequences, FiniteSets, TLC

VARIABLES
  ar,               \* the archive given to OpenReader (the bytes on disk)
  fd,               \* Reader::fd
  size,             \* Reader::size
  comment,          \* Reader::comment
  files,            \* Reader::files
  uncompressedSize, \* Reader::uncompressedSize
  compressedSize,   \* Reader::compressedSize
  ec,               \* the caller's bela::error_code
  d,                \* Initialize's directoryEnd d
  i,                \* Initialize's loop index
  pc,               \* position inside OpenReader / Initialize
  br,               \* offset of the next unread byte of Initialize's bufioReader br
  iolog,            \* the I/O requests issued on fd, in order
  hdrIn,            \* a central-directory entry handed to readDirectoryHeader
  hdrOut,           \* what readDirectoryHeader returned for it
  peIn,             \* the file given to bela::pe::File::NewFile
  peOut             \* what NewFile returned for it

zipVars == <<ar, fd, size, comment, files, uncompressedSize, compressedSize, ec, d, i, pc, br, iolog>>
hdrVars == <<hdrIn, hdrOut>>
peVars == <<peIn, peOut>>
vars == <<ar, fd, size, comment, files, uncompressedSize, compressedSize, ec, d, i, pc, br, iolog, hdrIn, hdrOut, peIn, peOut>>

----------------------------------------------------------------------------
(* Fixed-width arithmetic.                                                 *)

Limb == 256 * 256

\* the uint64_t whose value is lo + 65536 * hi (a zero-extended uint32_t)
W32(lo, hi) == <<lo, hi, 0, 0>>

\* the uint64_t of a value below 65536 (a zero-extended uint16_t)
W16(v) == <<v, 0, 0, 0>>

WZero == <<0, 0, 0, 0>>

\* a small non-negative integer (below 2^31) as a uint64_t
WOfInt(n) == <<n % Limb, n \div Limb, 0, 0>>

\* whether the uint64_t fits a non-negative 31-bit integer, and that integer
WIsSmall(w) == w[3] = 0 /\ w[4] = 0 /\ w[2] < 32768

WToInt(w) == w[1] + Limb * w[2]

\* uint64_t addition, wrapping at 2^64
WAdd(a, b) ==
  LET s1 == a[1] + b[1]
      s2 == a[2] + b[2] + (s1 \div Limb)
      s3 == a[3] + b[3] + (s2 \div Limb)
      s4 == a[4] + b[4] + (s3 \div Limb)
  IN  <<s1 % Limb, s2 % Limb, s3 % Limb, s4 % Limb>>

\* uint64_t subtraction, wrapping at 2^64
WSub(a, b) ==
  LET s1 == a[1] - b[1]
      c1 == IF s1 < 0 THEN 1 ELSE 0
      s2 == a[2] - b[2] - c1
      c2 == IF s2 < 0 THEN 1 ELSE 0
      s3 == a[3] - b[3] - c2
      c3 == IF s3 < 0 THEN 1 ELSE 0
      s4 == a[4] - b[4] - c3
  IN  <<s1 % Limb, s2 % Limb, s3 % Limb, s4 % Limb>>

\* a < b as uint64_t
WLess(a, b) ==
  \/ a[4] < b[4]
  \/ a[4] = b[4] /\ a[3] < b[3]
  \/ a[4] = b[4] /\ a[3] = b[3] /\ a[2] < b[2]
  \/ a[4] = b[4] /\ a[3] = b[3] /\ a[2] = b[2] /\ a[1] < b[1]

\* the value is negative when read as int64_t
WNegative(w) == w[4] >= 32768

\* uint64_t times k, 0 <= k < 32768, wrapping at 2^64
WMulSmall(w, k) ==
  LET p1 == w[1] * k
      p2 == w[2] * k + (p1 \div Limb)
      p3 == w[3] * k + (p2 \div Limb)
      p4 == w[4] * k + (p3 \div Limb)
  IN  <<p1 % Limb, p2 % Limb, p3 % Limb, p4 % Limb>>

\* uint64_t divided by k, 0 < k < 32768
WDivSmall(w, k) ==
  LET q4 == w[4] \div k
      r4 == w[4] % k
      n3 == r4 * Limb + w[3]
      q3 == n3 \div k
      r3 == n3 % k
      n2 == r3 * Limb + w[2]
      q2 == n2 \div k
      r2 == n2 % k
      n1 == r2 * Limb + w[1]
      q1 == n1 \div k
  IN  <<q1, q2, q3, q4>>

----------------------------------------------------------------------------
(* Byte cursors (bela::endian::LittenEndian): a cursor is the sequence of  *)
(* bytes not yet consumed.                                                 *)

Byte == 0..255

\* the cursor after n bytes were consumed (Discard, or the advance of a Read)
Drop(b, n) == SubSeq(b, n + 1, Len(b))

\* the first n bytes of the cursor (the view returned by Sub)
Take(b, n) == SubSeq(b, 1, n)

\* Read<uint16_t>: the value of the first two bytes, little-endian
Read16(b) == b[1] + 256 * b[2]

\* Read<uint32_t>, zero-extended
Read32(b) == W32(b[1] + 256 * b[2], b[3] + 256 * b[4])

\* Read<uint64_t>
Read64(b) == <<b[1] + 256 * b[2], b[3] + 256 * b[4], b[5] + 256 * b[6], b[7] + 256 * b[8]>>

\* Pick: the first byte; the cursor advances by one
Pick(b) == b[1]

\* the little-endian bytes a writer stores for a 16-bit value
Enc16(v) == <<v % 256, v \div 256>>

\* the little-endian bytes of the low 32 bits of a wide value
Enc32(w) == Enc16(w[1]) \o Enc16(w[2])

\* the little-endian bytes of a wide value
Enc64(w) == Enc16(w[1]) \o Enc16(w[2]) \o Enc16(w[3]) \o Enc16(w[4])

----------------------------------------------------------------------------
(* Time (bela::Time), to whole seconds: the int64_t count of seconds since *)
(* the Unix epoch, two's complement.                                       *)

\* bela::Time{}: the Unix epoch
TimeZero == [sec |-> WZero]

FromUnixSeconds(w) == [sec |-> w]

ToUnixSeconds(t) == t.sec

\* seconds between 1601-01-01 and 1970-01-01: 11644473600
WindowsEpochSeconds == <<37120, 46608, 2, 0>>

\* ticks of 100 ns since 1601-01-01 to whole seconds since 1970-01-01
FromWindowsPreciseTime(ticks) == [sec |-> WSub(WDivSmall(WDivSmall(ticks, 10000), 1000), WindowsEpochSeconds)]

\* days from 1970-01-01 to the civil date y-m-dd (proleptic Gregorian)
DaysFromCivil(y, m, dd) ==
  LET yy == IF m <= 2 THEN y - 1 ELSE y
      era == yy \div 400
      yoe == yy - era * 400
      mp == IF m > 2 THEN m - 3 ELSE m + 9
      doy == ((153 * mp + 2) \div 5) + dd - 1
      doe == yoe * 365 + (yoe \div 4) - (yoe \div 100) + doy
  IN  era * 146097 + doe - 719468

\* the MS-DOS date and time words as a time (UTC)
FromDosDateTime(dosDate, dosTime) ==
  LET year == (dosDate \div 512) + 1980
      month == (dosDate \div 32) % 16
      day == dosDate % 32
      hour == dosTime \div 2048
      minute == (dosTime \div 32) % 64
      second == (dosTime % 32) * 2
      days == DaysFromCivil(year, month, day)
  IN  [sec |-> WAdd(WMulSmall(WMulSmall(WOfInt(days), 675), 128), WOfInt(hour * 3600 + minute * 60 + second))]

----------------------------------------------------------------------------
(* zip.cc: constants                                                       *)

fileHeaderLen == 30
directoryHeaderLen == 46
directoryEndLen == 22
directory64LocLen == 20
directory64EndLen == 56

\* 0x02014b50, 0x06054b50, 0x07064b50, 0x06064b50
directoryHeaderSignature == W32(19280, 513)
directoryEndSignature == W32(19280, 1541)
directory64LocSignature == W32(19280, 1798)
directory64EndSignature == W32(19280, 1542)

zip64ExtraID == 1
ntfsExtraID == 10
unixExtraID == 13
extTimeExtraID == 21589
infoZipUnixExtraID == 22613
winzipAesExtraID == 39169

\* 0xFFFFFFFF as uint32_t (SizeMin) and as uint64_t (OffsetMin)
SizeMin == W32(65535, 65535)
OffsetMin == W32(65535, 65535)

ErrNone == "none"
ErrNotZip == "zip: not a valid zip file"
ErrCommentLen == "zip: invalid comment length"
ErrEOF == "unexpected EOF"
ErrTOC == "zip: TOC declares impossible files"
ErrOpened == "The file has been opened, the function cannot be called repeatedly"

----------------------------------------------------------------------------
(* zip.cc: readDirectoryHeader.                                            *)
(*                                                                         *)
(* A central-directory entry as it lies in the stream is a record:         *)
(*   sig, flags, method, dosTime, dosDate, compressedSize,                 *)
(*   uncompressedSize, position: the fixed fields, as the successive       *)
(*     b.Read<>() calls of lines 189-207 return them;                      *)
(*   name, commentLen: the file name (an identifier) and comment length;   *)
(*   extra: the bytes of the extra field (extraLen = Len(extra));          *)
(*   trunc: "no", or where the stream ends: inside the 46 fixed bytes      *)
(*     ("fixed") or inside the name/extra/comment that follow ("var");     *)
(*   xf: the writer's description of extra (used by no operation).         *)

\* hazel::zip::File{}
File0 == [name |-> 0, flags |-> 0, method |-> 0, compressedSize |-> WZero, uncompressedSize |-> WZero, position |-> WZero, time |-> TimeZero, utf8 |-> FALSE, aesVersion |-> 0, aesStrength |-> 0, extra |-> <<>>]

\* the locals of readDirectoryHeader that the extra-field loop updates
Locals0(file) == [file |-> file, needUSize |-> file.uncompressedSize = SizeMin, needSize |-> file.compressedSize = SizeMin, needOffset |-> file.position = OffsetMin, modified |-> TimeZero, failed |-> FALSE]

\* lines 232-239: the uncompressed size from a Zip64 block
zip64USize(fb, st) ==
  IF ~st.needUSize THEN [st |-> st, fb |-> fb]
  ELSE IF Len(fb) < 8 THEN [st |-> [st EXCEPT !.needUSize = FALSE, !.failed = TRUE], fb |-> fb]
  ELSE [st |-> [st EXCEPT !.needUSize = FALSE, !.file.uncompressedSize = Read64(fb)], fb |-> Drop(fb, 8)]

\* lines 240-247: the compressed size from a Zip64 block
zip64Size(fb, st) ==
  IF ~st.needSize THEN [st |-> st, fb |-> fb]
  ELSE IF Len(fb) < 8 THEN [st |-> [st EXCEPT !.needSize = FALSE, !.failed = TRUE], fb |-> fb]
  ELSE [st |-> [st EXCEPT !.needSize = FALSE, !.file.compressedSize = Read64(fb)], fb |-> Drop(fb, 8)]

\* lines 248-255: the local-header offset from a Zip64 block
zip64Offset(fb, st) ==
  IF ~st.needOffset THEN [st |-> st, fb |-> fb]
  ELSE IF Len(fb) < 8 THEN [st |-> [st EXCEPT !.needOffset = FALSE, !.failed = TRUE], fb |-> fb]
  ELSE [st |-> [st EXCEPT !.needOffset = FALSE, !.file.position = Read64(fb)], fb |-> Drop(fb, 8)]

\* a Zip64 field read in the order compressed size, uncompressed size, offset
zip64FieldSwapped(fb, st) ==
  LET a == zip64Size(fb, st)
      b == IF a.st.failed THEN a ELSE zip64USize(a.fb, a.st)
      c == IF b.st.failed THEN b ELSE zip64Offset(b.fb, b.st)
  IN  c.st

\* lines 231-257: a Zip64 extended-information field
zip64Field(fb, st) ==
  LET a == zip64USize(fb, st)
      b == IF a.st.failed THEN a ELSE zip64Size(a.fb, a.st)
      c == IF b.st.failed THEN b ELSE zip64Offset(b.fb, b.st)
  IN  c.st

\* lines 263-274: the attribute loop of an NTFS field; yields modified
RECURSIVE ntfsAttrs(_, _)
ntfsAttrs(fb, modified) ==
  IF Len(fb) < 4 THEN modified
  ELSE LET attrTag == Read16(fb)
           attrSize == Read16(Drop(fb, 2))
           rest == Drop(fb, 4)
       IN  IF Len(rest) < attrSize THEN modified
           ELSE IF attrTag # 1 \/ attrSize # 24 THEN modified
           ELSE ntfsAttrs(Drop(rest, attrSize), FromWindowsPreciseTime(Read64(Take(rest, attrSize))))

\* lines 258-276: an NTFS field
ntfsField(fb, st) ==
  IF Len(fb) < 4 THEN st
  ELSE [st EXCEPT !.modified = ntfsAttrs(Drop(fb, 4), st.modified)]

\* lines 277-284: a UNIX or Info-ZIP UNIX field
unixField(fb, st) ==
  IF Len(fb) < 8 THEN st
  ELSE [st EXCEPT !.file.time = FromUnixSeconds(Read32(Drop(fb, 4)))]

\* lines 285-291: an extended-timestamp field
extTimeField(fb, st) ==
  IF Len(fb) < 5 \/ Pick(fb) % 2 = 0 THEN st
  ELSE [st EXCEPT !.modified = FromUnixSeconds(Read32(Drop(fb, 1)))]

\* a WinZip AES field read with a Pick that leaves the cursor in place
winzipAesFieldNoAdvance(fb, st) ==
  IF Len(fb) < 7 THEN st
  ELSE [st EXCEPT !.file.aesVersion = Read16(fb), !.file.aesStrength = Pick(Drop(fb, 4)), !.file.method = Read16(Drop(fb, 4))]

\* lines 293-302: a WinZip AES field
winzipAesField(fb, st) ==
  IF Len(fb) < 7 THEN st
  ELSE [st EXCEPT !.file.aesVersion = Read16(fb), !.file.aesStrength = Pick(Drop(fb, 4)), !.file.method = Read16(Drop(fb, 5))]

\* lines 231-303: the body of the loop for one (tag, payload)
extraField(fieldTag, fb, st) ==
  IF fieldTag = zip64ExtraID THEN zip64Field(fb, st)
  ELSE IF fieldTag = ntfsExtraID THEN ntfsField(fb, st)
  ELSE IF fieldTag = unixExtraID \/ fieldTag = infoZipUnixExtraID THEN unixField(fb, st)
  ELSE IF fieldTag = extTimeExtraID THEN extTimeField(fb, st)
  ELSE IF fieldTag = winzipAesExtraID THEN winzipAesField(fb, st)
  ELSE st

\* lines 223-304: the extra-field loop over the cursor extra
RECURSIVE parseExtra(_, _)
parseExtra(extra, st) ==
  IF Len(extra) < 4 THEN st
  ELSE LET fieldTag == Read16(extra)
           fieldSize == Read16(Drop(extra, 2))
           rest == Drop(extra, 4)
       IN  IF Len(rest) < fieldSize THEN st
           ELSE LET st2 == extraField(fieldTag, Take(rest, fieldSize), st)
                IN  IF st2.failed THEN st2 ELSE parseExtra(Drop(rest, fieldSize), st2)

\* lines 305-308: the entry's time once the loop is over
finalTime(st, dosDate, dosTime) ==
  IF ToUnixSeconds(st.modified) # WZero THEN st.modified ELSE FromDosDateTime(dosDate, dosTime)

\* lines 309-312: the fields still missing once the loop is over
stillNeeded(st) == st.needSize \/ st.needOffset

\* lines 193-219: file after the fixed fields and the name/extra were assigned
fixedFields(e) == [File0 EXCEPT !.flags = e.flags, !.method = e.method, !.compressedSize = e.compressedSize, !.uncompressedSize = e.uncompressedSize, !.position = e.position, !.name = e.name, !.extra = e.extra, !.utf8 = ((e.flags \div 2048) % 2 = 1)]

\* lines 183-314: readDirectoryHeader on the entry e at the head of the stream
readDirectoryHeader(e) ==
  IF e.trunc = "fixed" THEN [ok |-> FALSE, ec |-> ErrEOF, file |-> File0]
  ELSE IF e.sig # directoryHeaderSignature THEN [ok |-> FALSE, ec |-> ErrNotZip, file |-> File0]
  ELSE IF e.trunc = "var" THEN [ok |-> FALSE, ec |-> ErrEOF, file |-> [fixedFields(e) EXCEPT !.name = 0, !.extra = <<>>, !.utf8 = FALSE]]
  ELSE LET st == parseExtra(e.extra, Locals0(fixedFields(e)))
       IN  IF st.failed THEN [ok |-> FALSE, ec |-> ErrNotZip, file |-> st.file]
           ELSE LET file == [st.file EXCEPT !.time = finalTime(st, e.dosDate, e.dosTime)]
                IN  IF stillNeeded(st) THEN [ok |-> FALSE, ec |-> ErrNotZip, file |-> file]
                    ELSE [ok |-> TRUE, ec |-> ErrNone, file |-> file]

----------------------------------------------------------------------------
(* Inputs: extra fields as a writer lays them out.                         *)
(* A field is [tag, size, data, vals]: size is the declared length, data   *)
(* the payload bytes that follow (fewer than size only for a field cut off *)
(* by the end of the extra buffer), vals the values the writer encoded.    *)

MaxFields == 2

\* the bytes of one field and of a chain of fields
EncField(f) == Enc16(f.tag) \o Enc16(f.size) \o f.data

RECURSIVE EncExtra(_)
EncExtra(xf) == IF xf = <<>> THEN <<>> ELSE EncField(Head(xf)) \o EncExtra(Tail(xf))

RECURSIVE EncAll64(_)
EncAll64(vals) == IF vals = <<>> THEN <<>> ELSE Enc64(Head(vals)) \o EncAll64(Tail(vals))

\* 8-byte values of a Zip64 block: 2^32 + 5, 2^33 + 7, 2^32 + 2^16 + 9
Val64 == <<(<<5, 0, 1, 0>>), (<<7, 0, 2, 0>>), (<<9, 1, 1, 0>>)>>

\* Zip64 blocks holding 0, 1, 2 or 3 values, and one holding 4 stray bytes
Zip64Fields == {[tag |-> zip64ExtraID, size |-> 8 * n, data |-> EncAll64(SubSeq(Val64, 1, n)), vals |-> SubSeq(Val64, 1, n)] : n \in 0..3} \cup {[tag |-> zip64ExtraID, size |-> 4, data |-> <<5, 0, 0, 0>>, vals |-> <<>>]}

\* access and modification times: 1 and 1600000000; 1600000001; 0
ATime == W32(1, 0)
MTime == W32(4096, 24414)
MTime2 == W32(4097, 24414)

\* UNIX and Info-ZIP UNIX fields: atime, mtime (8 bytes), or atime alone
UnixFields == {[tag |-> t, size |-> 8, data |-> Enc32(ATime) \o Enc32(MTime), vals |-> <<ATime, MTime>>] : t \in {unixExtraID, infoZipUnixExtraID}} \cup {[tag |-> unixExtraID, size |-> 4, data |-> Enc32(ATime), vals |-> <<ATime>>]}

\* extended-timestamp fields: flag byte, then the modification time
ExtTimeFields == {[tag |-> extTimeExtraID, size |-> 5, data |-> <<fl>> \o Enc32(ts), vals |-> <<W16(fl), ts>>] : fl \in {0, 1}, ts \in {MTime2, WZero}}

\* WinZip AES fields: version, vendor 'AE', strength, method; or cut to 6 bytes
AesFields == {[tag |-> winzipAesExtraID, size |-> 7, data |-> Enc16(v[1]) \o <<65, 69>> \o <<v[2]>> \o Enc16(v[3]), vals |-> <<W16(v[1]), W16(v[2]), W16(v[3])>>] : v \in {<<2, 3, 8>>, <<1, 1, 270>>}} \cup {[tag |-> winzipAesExtraID, size |-> 6, data |-> <<2, 0, 65, 69, 3, 8>>, vals |-> <<>>]}

\* an NTFS field: 4 reserved bytes, attribute 1 of 24 bytes (mtime, atime,
\* ctime in 100 ns ticks; mtime is 2020-09-13 12:26:41 UTC, Unix 1600000001)
NtfsTicks == <<5760, 8767, 35273, 470>>
NtfsFields == {[tag |-> ntfsExtraID, size |-> 32, data |-> <<0, 0, 0, 0>> \o Enc16(1) \o Enc16(24) \o Enc64(NtfsTicks) \o Enc64(NtfsTicks) \o Enc64(NtfsTicks), vals |-> <<NtfsTicks>>]}

\* a field with a tag the reader does not know (0x7075)
OtherFields == {[tag |-> 28789, size |-> 3, data |-> <<1, 2, 3>>, vals |-> <<>>]}

\* a field whose declared length runs past the end of the extra buffer
CutFields == {[tag |-> unixExtraID, size |-> 8, data |-> Enc32(ATime), vals |-> <<>>]}

WholeFields == Zip64Fields \cup UnixFields \cup ExtTimeFields \cup AesFields \cup NtfsFields \cup OtherFields

\* chains of at most n fields; only the last may be cut off
Chains(n) == UNION {{xf \in [1..k -> WholeFields \cup CutFields] : \A j \in 1..k : xf[j] \in CutFields => j = k} : k \in 0..n}

\* DOS date/time words: 1980-01-01 00:00:00 and 2020-09-13 12:26:40
DosStamps == {<<33, 0>>, <<20781, 25428>>}

\* a central-directory entry with the extra chain xf
Entry(sig, method, dos, cs, us, pos, xf, trunc) == [sig |-> sig, flags |-> 2048, method |-> method, dosDate |-> dos[1], dosTime |-> dos[2], compressedSize |-> cs, uncompressedSize |-> us, position |-> pos, name |-> 1, nameLen |-> 1, commentLen |-> 0, extra |-> EncExtra(xf), trunc |-> trunc, xf |-> xf]

\* entries handed to readDirectoryHeader on its own
HdrInputs ==
  {Entry(directoryHeaderSignature, m, dos, cs, us, pos, xf, "no") : m \in {8, 99}, dos \in DosStamps, cs \in {W32(10, 0), SizeMin}, us \in {W32(20, 0), SizeMin}, pos \in {WZero, OffsetMin}, xf \in Chains(MaxFields)}
  \cup {Entry(sig, 8, <<33, 0>>, W32(10, 0), W32(20, 0), WZero, <<>>, tr) : sig \in {directoryHeaderSignature, directoryEndSignature}, tr \in {"no", "fixed", "var"}}

NotCalled == [ok |-> FALSE, ec |-> "not called", file |-> File0]

----------------------------------------------------------------------------
(* zip.cc: the end of the central directory.                               *)
(*                                                                         *)
(* An archive is the file on disk, kept sparsely:                          *)
(*   size: its length in bytes;                                            *)
(*   eocds: the places where the bytes 'P','K',5,6 occur, each with the    *)
(*     fields an end-of-central-directory record read there would have:    *)
(*     back (distance from the signature to the end of the file), n (the   *)
(*     16-bit comment length at +20), records (16-bit, at +10), dirSize,   *)
(*     dirOffset (32-bit, at +12 and +16), and loc, the 20 bytes before    *)
(*     the signature read as a Zip64 locator (sig, disk, p, total);        *)
(*   z64Off, z64: the offset of the Zip64 end record and its fields (sig,  *)
(*     records, dirSize, dirOffset), when the file has one;                *)
(*   cdOff, entries: where the central directory starts and its entries.   *)
(* All other bytes hold no signature.                                      *)

\* block lengths of 1 KiB and 64 KiB
offrange64K == <<1024, 64 * 1024>>

\* the two block lengths readDirectoryEnd tries (line 126)
offrange == <<1024, 65 * 1024>>

\* int64_t -1
WMinusOne == <<65535, 65535, 65535, 65535>>

\* the last blen bytes of the file as a buffer: its size, and where a
\* signature lies in it (index i) with the 16-bit value n at i + 20
Block(a, blen) == [size |-> blen, sigs |-> {[i |-> blen - c.back, n |-> c.n] : c \in {x \in a.eocds : x.back <= blen}}]

\* the last signature in the block, whatever comment length it declares
findSignatureAnyComment(b) ==
  LET hits == {s.i : s \in {x \in b.sigs : x.i <= b.size - directoryEndLen}}
  IN  IF hits = {} THEN -1 ELSE CHOOSE m \in hits : \A x \in hits : x <= m

\* lines 65-75: the first index the downward scan accepts, or -1
findSignatureInBlock(b) ==
  LET hits == {s.i : s \in {x \in b.sigs : x.i <= b.size - directoryEndLen /\ x.n + directoryEndLen + x.i <= b.size}}
  IN  IF hits = {} THEN -1 ELSE CHOOSE m \in hits : \A x \in hits : x <= m

\* one ReadAt / PositionAt request as the log keeps it
IoReq(op, len, pos) == [op |-> op, len |-> len, pos |-> pos]

\* ReadAt of len bytes at the wide offset p succeeds when they lie in the file
CanReadAt(a, len, p) == WIsSmall(p) /\ WToInt(p) + len <= a.size

\* lines 99-120: findDirectory64End for the record c found at directoryEndOffset
findDirectory64End(a, c, directoryEndOffset) ==
  LET locOffset == directoryEndOffset - directory64LocLen
  IN  IF locOffset < 0 THEN [p |-> WMinusOne, log |-> <<>>]
      ELSE LET log == <<IoReq("ReadAt", directory64LocLen, locOffset)>>
           IN  IF c.loc.sig # directory64LocSignature THEN [p |-> WMinusOne, log |-> log]
               ELSE IF c.loc.disk # WZero THEN [p |-> WMinusOne, log |-> log]
               ELSE IF c.loc.total # W32(1, 0) THEN [p |-> WMinusOne, log |-> log]
               ELSE [p |-> c.loc.p, log |-> log]

\* lines 76-97: readDirectory64End at the wide offset p, updating dd
readDirectory64End(a, p, dd) ==
  LET log == <<IoReq("ReadAt", directory64EndLen, IF WIsSmall(p) THEN WToInt(p) ELSE -1)>>
  IN  IF ~CanReadAt(a, directory64EndLen, p) THEN [ok |-> FALSE, ec |-> ErrEOF, d |-> dd, log |-> log]
      ELSE IF ~(a.hasZ64 /\ WToInt(p) = a.z64Off /\ a.z64.sig = directory64EndSignature) THEN [ok |-> FALSE, ec |-> ErrNotZip, d |-> dd, log |-> log]
      ELSE [ok |-> TRUE, ec |-> ErrNone, d |-> [dd EXCEPT !.directoryRecords = a.z64.records, !.directorySize = a.z64.dirSize, !.directoryOffset = a.z64.dirOffset], log |-> log]

\* directoryEnd{}
DirEnd0 == [directoryRecords |-> WZero, directorySize |-> WZero, directoryOffset |-> WZero, commentLen |-> 0, comment |-> <<0, 0>>]

\* the comment string of len bytes that follows the record at offset off:
\* <<len, off>>, and <<0, 0>> when it is empty
CommentAt(off, len) == IF len = 0 THEN <<0, 0>> ELSE <<len, off>>

\* line 160: whether the fields of the end record call for the Zip64 records
wantsZip64(dd) == dd.directoryRecords = W16(65535) \/ dd.directorySize = W16(65535) \/ dd.directoryOffset = W32(65535, 65535)

\* lines 160-169: the Zip64 branch, entered with ec cleared
zip64Branch(a, c, directoryEndOffset, dd) ==
  LET f == findDirectory64End(a, c, directoryEndOffset)
  IN  IF ~WNegative(f.p) /\ f.p # WZero
      THEN LET r == readDirectory64End(a, f.p, dd)
           IN  [ok |-> r.ok, ec |-> r.ec, d |-> r.d, log |-> f.log \o r.log]
      ELSE [ok |-> TRUE, ec |-> ErrNone, d |-> dd, log |-> f.log]

\* lines 170-173: the final check on the directory offset
badOffset(dd, sz) == WNegative(dd.directoryOffset) \/ 0 >= sz

\* lines 147-175: readDirectoryEnd after the record c was found at offset
\* directoryEndOffset, with bsize bytes of the block from the record on
decodeDirectoryEnd(a, sz, ec0, c, directoryEndOffset, bsize, log) ==
  LET d1 == [DirEnd0 EXCEPT !.directoryRecords = W16(c.records), !.directorySize = c.dirSize, !.directoryOffset = c.dirOffset, !.commentLen = c.n]
  IN  IF c.n > bsize - directoryEndLen THEN [ok |-> FALSE, ec |-> ErrCommentLen, d |-> d1, log |-> log]
      ELSE LET d2 == [d1 EXCEPT !.comment = CommentAt(directoryEndOffset + directoryEndLen, c.n)]
               z == IF wantsZip64(d2) THEN zip64Branch(a, c, directoryEndOffset, d2) ELSE [ok |-> TRUE, ec |-> ec0, d |-> d2, log |-> <<>>]
           IN  IF ~z.ok THEN [ok |-> FALSE, ec |-> z.ec, d |-> z.d, log |-> log \o z.log]
               ELSE IF badOffset(z.d, sz) THEN [ok |-> FALSE, ec |-> ErrNotZip, d |-> z.d, log |-> log \o z.log]
               ELSE [ok |-> TRUE, ec |-> z.ec, d |-> z.d, log |-> log \o z.log]

\* lines 129-132: the length of the block of pass k (1 or 2)
blockLen(k, sz) == IF offrange[k] > sz THEN sz ELSE offrange[k]

\* line 142: whether the search gives up after a pass k that found nothing
\* (the code's i is k - 1)
givesUp(k, sz) == k - 1 = 1 \/ blockLen(k, sz) = sz

\* lines 123-175: readDirectoryEnd on archive a with Reader::size sz; ec0 is
\* the caller's ec on entry
readDirectoryEnd(a, sz, ec0) ==
  LET blen1 == blockLen(1, sz)
      blen2 == blockLen(2, sz)
      p1 == findSignatureInBlock(Block(a, blen1))
      p2 == findSignatureInBlock(Block(a, blen2))
      rd1 == IoReq("ReadAt", blen1, sz - blen1)
      rd2 == IoReq("ReadAt", blen2, sz - blen2)
      at(off) == CHOOSE c \in a.eocds : a.size - c.back = off
  IN  IF p1 >= 0 THEN decodeDirectoryEnd(a, sz, ec0, at(sz - blen1 + p1), sz - blen1 + p1, blen1 - p1, <<rd1>>)
      ELSE IF givesUp(1, sz) THEN [ok |-> FALSE, ec |-> ErrNotZip, d |-> DirEnd0, log |-> <<rd1>>]
      ELSE IF p2 >= 0 THEN decodeDirectoryEnd(a, sz, ec0, at(sz - blen2 + p2), sz - blen2 + p2, blen2 - p2, <<rd1, rd2>>)
      ELSE [ok |-> FALSE, ec |-> ErrNotZip, d |-> DirEnd0, log |-> <<rd1, rd2>>]

----------------------------------------------------------------------------
(* Inputs: archives as a writer lays them out:                             *)
(*   local data | central directory | Zip64 end record | Zip64 locator |   *)
(*   end record | comment and trailing bytes.                              *)

MaxEntries == 2

\* lines 208-210: the bytes an entry takes in the directory stream
EntryLen(e) == directoryHeaderLen + e.nameLen + Len(e.extra) + e.commentLen

RECURSIVE EntriesLen(_)
EntriesLen(es) == IF es = <<>> THEN 0 ELSE EntryLen(Head(es)) + EntriesLen(Tail(es))

\* the offset of entry j of archive a
EntryOff(a, j) == a.cdOff + EntriesLen(SubSeq(a.entries, 1, j - 1))

\* 10,000,000 and 2^63
TenMillion == <<38528, 152, 0, 0>>
WTop == <<0, 0, 0, 32768>>

\* the entries archives are made of: plain; compressed size in a Zip64
\* block; wrong signature; compressed size 0xFFFFFFFF and no Zip64 block;
\* larger sizes with UNIX and AES fields
EntryPool ==
  { Entry(directoryHeaderSignature, 8, <<33, 0>>, W32(10, 0), W32(20, 0), WZero, <<>>, "no"),
    Entry(directoryHeaderSignature, 8, <<33, 0>>, SizeMin, W32(20, 0), WZero, <<CHOOSE f \in Zip64Fields : f.size = 8>>, "no"),
    Entry(directoryEndSignature, 8, <<33, 0>>, W32(10, 0), W32(20, 0), WZero, <<>>, "no"),
    Entry(directoryHeaderSignature, 8, <<33, 0>>, SizeMin, W32(20, 0), WZero, <<>>, "no"),
    Entry(directoryHeaderSignature, 99, <<20781, 25428>>, W32(65535, 3), W32(1, 7), W32(40, 0), <<CHOOSE f \in AesFields : f.vals = <<W16(2), W16(3), W16(8)>> >>, "no") }

\* sequences of at most n entries
EntrySeqs(n) == UNION {[1..k -> EntryPool] : k \in 0..n}

\* the 20 bytes before an end record when no locator was written
NoLocator == [sig |-> WZero, disk |-> WZero, p |-> WZero, total |-> WZero]

\* a writer's choices; rec = -1, and "real", stand for the true value
Q0 == [localLen |-> 0, entries |-> <<>>, z64 |-> "absent", loc |-> "absent", rec |-> -1, dsize |-> "real", doff |-> "real", back |-> directoryEndLen, n |-> 0, decoy |-> "none"]

\* the archive written from the choices q
MkArchive(q) ==
  LET cdOff == q.localLen
      cdLen == EntriesLen(q.entries)
      z64Off == cdOff + cdLen
      hasZ64 == q.z64 # "absent"
      locOff == z64Off + (IF hasZ64 THEN directory64EndLen ELSE 0)
      hasLoc == q.loc # "absent"
      eocdOff == locOff + (IF hasLoc THEN directory64LocLen ELSE 0)
      sz == eocdOff + q.back
      realOff == WOfInt(cdOff)
      realLen == WOfInt(cdLen)
      nrec == Len(q.entries)
      offOf(sel) == CASE sel = "real" -> realOff
                      [] sel = "ffffffff" -> W32(65535, 65535)
                      [] sel = "second" -> WOfInt(cdOff + (IF nrec > 0 THEN EntryLen(q.entries[1]) ELSE 0))
                      [] sel = "bogus" -> WOfInt(cdOff + 1)
                      [] sel = "beyond" -> WOfInt(sz + 100)
                      [] sel = "neg" -> WTop
      lenOf(sel) == CASE sel = "real" -> realLen
                      [] sel = "ffff" -> W16(65535)
                      [] sel = "ffffffff" -> W32(65535, 65535)
      z64 == [sig |-> IF q.z64 = "badsig" THEN directoryEndSignature ELSE directory64EndSignature,
              records |-> IF q.z64 = "tenmillion" THEN TenMillion ELSE WOfInt(nrec),
              dirSize |-> realLen,
              dirOffset |-> IF q.z64 = "negoff" THEN WTop ELSE realOff]
      loc == IF ~hasLoc THEN NoLocator
             ELSE [sig |-> directory64LocSignature,
                   disk |-> IF q.loc = "disk1" THEN W32(1, 0) ELSE WZero,
                   p |-> CASE q.loc = "pzero" -> WZero
                           [] q.loc = "pbogus" -> WOfInt(z64Off + 1)
                           [] q.loc = "pneg" -> WTop
                           [] OTHER -> WOfInt(z64Off),
                   total |-> IF q.loc = "total2" THEN W32(2, 0) ELSE W32(1, 0)]
      main == [back |-> q.back, n |-> q.n, records |-> IF q.rec = -1 THEN nrec ELSE q.rec, dirSize |-> lenOf(q.dsize), dirOffset |-> offOf(q.doff), loc |-> loc]
      decoys == IF q.decoy = "none" THEN {}
                ELSE {[back |-> directoryEndLen, n |-> IF q.decoy = "valid" THEN 0 ELSE 1, records |-> 0, dirSize |-> WZero, dirOffset |-> WZero, loc |-> NoLocator]}
  IN  [size |-> sz, eocds |-> {main} \cup decoys, hasZ64 |-> hasZ64, z64Off |-> z64Off, z64 |-> z64, cdOff |-> cdOff, entries |-> q.entries]

\* distances from the end record's signature to the end of the file
Backs == {22, 23, 1024, 1025, 4000, 65536, 65537, 65600, 66560, 66561, 70000}

\* archives that differ in where the end record lies
LocateChoices == UNION {{[Q0 EXCEPT !.back = b, !.n = n, !.decoy = dc, !.entries = es] : n \in {0, b - 22, b - 21}, dc \in {"none", "valid", "invalid"}, es \in EntrySeqs(1)} : b \in Backs}

\* archives that differ in their sentinel fields and Zip64 records
Zip64Choices == {[Q0 EXCEPT !.localLen = ll, !.entries = es, !.z64 = z, !.loc = l, !.rec = r, !.dsize = ds, !.doff = dof] : ll \in {0, 40}, es \in EntrySeqs(1), z \in {"absent", "good", "badsig", "tenmillion", "negoff"}, l \in {"absent", "good", "disk1", "total2", "pzero", "pbogus", "pneg"}, r \in {-1, 65535}, ds \in {"real", "ffff", "ffffffff"}, dof \in {"real", "ffffffff"}}

\* archives that differ in their entries and declared entry count
EntryChoices == {[Q0 EXCEPT !.entries = es, !.rec = r, !.doff = dof, !.back = b] : es \in EntrySeqs(MaxEntries), r \in 0..(MaxEntries + 2), dof \in {"real", "second", "bogus", "beyond"}, b \in {22, 200}}

\* a choice the bytes of a file can realize: the decoy lies behind the end
\* record, and the comment length is a 16-bit value
Writable(q) == (q.decoy # "none" => q.back >= 2 * directoryEndLen) /\ q.n <= 65535

Archives == {MkArchive(q) : q \in {x \in LocateChoices \cup Zip64Choices \cup EntryChoices : Writable(x)}}

----------------------------------------------------------------------------
(* zip.cc: Reader::OpenReader and Reader::Initialize.                      *)

\* the entry, or the bytes read as one, at offset pos of archive a
NextHeader(a, pos) ==
  IF \E j \in 1..Len(a.entries) : EntryOff(a, j) = pos
  THEN a.entries[CHOOSE j \in 1..Len(a.entries) : EntryOff(a, j) = pos]
  ELSE Entry(directoryEndSignature, 0, <<33, 0>>, WZero, WZero, WZero, <<>>, IF pos < 0 \/ pos + directoryHeaderLen > a.size THEN "fixed" ELSE "no")

\* a count compared with the file size itself
impossibleCountBySize(dd, sz) == WLess(WOfInt(sz), dd.directoryRecords)

\* line 321: the declared entry count cannot fit a file of sz bytes
impossibleCount(dd, sz) == WLess(WOfInt(sz \div fileHeaderLen), dd.directoryRecords)

\* lines 366-381: OpenReader(nfd, sz, ec) on a fresh Reader, up to the call
\* of Initialize
OpenReader ==
  /\ pc = "new"
  /\ fd = "INVALID_HANDLE_VALUE"
  /\ fd' = "nfd"
  /\ size' = ar.size
  /\ pc' = "readDirectoryEnd"
  /\ UNCHANGED <<ar, comment, files, uncompressedSize, compressedSize, ec, d, i, br, iolog, hdrIn, hdrOut, peIn, peOut>>

\* lines 317-320: Initialize calls readDirectoryEnd
ReadDirectoryEnd ==
  /\ pc = "readDirectoryEnd"
  /\ LET r == readDirectoryEnd(ar, size, ec)
     IN  /\ d' = r.d
         /\ ec' = r.ec
         /\ iolog' = iolog \o r.log
         /\ pc' = IF r.ok THEN "checkRecords" ELSE "failed"
  /\ UNCHANGED <<ar, fd, size, comment, files, uncompressedSize, compressedSize, i, br, hdrIn, hdrOut, peIn, peOut>>

\* lines 321-332: the count check, the comment, and PositionAt
CheckRecords ==
  /\ pc = "checkRecords"
  /\ IF impossibleCount(d, size)
     THEN /\ ec' = ErrTOC
          /\ pc' = "failed"
          /\ UNCHANGED <<comment, br, iolog, i>>
     ELSE /\ comment' = d.comment
          /\ iolog' = Append(iolog, IoReq("PositionAt", 0, IF WIsSmall(d.directoryOffset) THEN WToInt(d.directoryOffset) ELSE -1))
          /\ br' = IF WIsSmall(d.directoryOffset) THEN WToInt(d.directoryOffset) ELSE -1
          /\ i' = 0
          /\ pc' = "loop"
          /\ UNCHANGED ec
  /\ UNCHANGED <<ar, fd, size, files, uncompressedSize, compressedSize, d, hdrIn, hdrOut, peIn, peOut>>

\* a total that is assigned, not added to
accumulateAssign(total, v) == v

\* lines 338-339: total += the entry's size (uint64_t)
accumulate(total, v) == WAdd(total, v)

\* lines 333-341: one iteration of the entry loop
ReadEntry ==
  /\ pc = "loop"
  /\ WLess(WOfInt(i), d.directoryRecords)
  /\ LET e == NextHeader(ar, br)
         r == readDirectoryHeader(e)
     IN  /\ iolog' = Append(iolog, IoReq("readDirectoryHeader", 0, br))
         /\ IF r.ok
            THEN /\ uncompressedSize' = accumulate(uncompressedSize, r.file.uncompressedSize)
                 /\ compressedSize' = accumulate(compressedSize, r.file.compressedSize)
                 /\ files' = Append(files, r.file)
                 /\ br' = br + EntryLen(e)
                 /\ i' = i + 1
                 /\ UNCHANGED <<ec, pc>>
            ELSE /\ ec' = r.ec
                 /\ pc' = "failed"
                 /\ UNCHANGED <<uncompressedSize, compressedSize, files, br, i>>
  /\ UNCHANGED <<ar, fd, size, comment, d, hdrIn, hdrOut, peIn, peOut>>

\* line 342: the loop is over and Initialize returns true
Finish ==
  /\ pc = "loop"
  /\ ~WLess(WOfInt(i), d.directoryRecords)
  /\ pc' = "done"
  /\ UNCHANGED <<ar, fd, size, comment, files, uncompressedSize, compressedSize, ec, d, i, br, iolog, hdrIn, hdrOut, peIn, peOut>>

\* readDirectoryHeader applied to one entry on its own
DecodeHeader ==
  /\ pc = "header"
  /\ hdrOut = NotCalled
  /\ hdrOut' = readDirectoryHeader(hdrIn)
  /\ UNCHANGED <<ar, fd, size, comment, files, uncompressedSize, compressedSize, ec, d, i, pc, br, iolog, hdrIn, peIn, peOut>>

----------------------------------------------------------------------------
(* bela::pe::File::NewFile (src/src/belawin/pe/file.cc).                   *)
(* A file is [openable, size, mz, e_lfanew, sign, SizeOfOptionalHeader,    *)
(* Magic, strtab, symbols]: mz says whether bytes 0..1 are 'MZ', e_lfanew  *)
(* is the dword at 0x3c, sign the 4 bytes at e_lfanew, the FileHeader      *)
(* follows the signature (or starts the file when there is no 'MZ'), Magic *)
(* is the word that follows the FileHeader; strtab and symbols say whether *)
(* readStringTable and readCOFFSymbols succeed on the file.                *)

\* sizeof(DosHeader), sizeof(FileHeader), sizeof(OptionalHeader32) and
\* sizeof(OptionalHeader64), all packed
SizeofDosHeader == 64
SizeofFileHeader == 20
OptionalHeader32Len == 96 + 8 * 16
OptionalHeader64Len == 112 + 8 * 16

SignPE == <<80, 69, 0, 0>>

\* a failed call; reads is the list of <<position, length>> of the fread calls
PeFail(code, msg) == [ok |-> FALSE, code |-> code, msg |-> msg, is64bit |-> FALSE, base |-> 0, SizeOfOptionalHeader |-> 0, reads |-> <<>>]

\* the fread calls pre came before those of the result r
After(pre, r) == [r EXCEPT !.reads = pre \o @]

\* a signature test that looks at 'P','E' only
signOkFirstTwo(sign) == sign[1] = 80 /\ sign[2] = 69

\* line 63: the four bytes are 'P','E',0,0
signOk(sign) == sign = SignPE

\* line 79: is64bit as NewFile computes it from the FileHeader
is64bitOf(f) == f.SizeOfOptionalHeader = OptionalHeader64Len

\* lines 70-87: from the seek to base to the end
NewFileAt(f, base) ==
  After(<<<<base, SizeofFileHeader>>>>,
    IF base + SizeofFileHeader > f.size THEN PeFail(0, "Invalid PE COFF file FileHeader ")
    ELSE IF ~f.strtab THEN PeFail(1, "readStringTable")
    ELSE IF ~f.symbols THEN PeFail(1, "readCOFFSymbols")
    ELSE [ok |-> TRUE, code |-> 0, msg |-> "", is64bit |-> is64bitOf(f), base |-> base, SizeOfOptionalHeader |-> f.SizeOfOptionalHeader, reads |-> <<>>])

\* lines 36-87: NewFile(p, ec)
NewFile(f) ==
  IF ~f.openable THEN PeFail(2, "open file: ")
  ELSE After(<<<<0, SizeofDosHeader>>>>,
    IF f.size < SizeofDosHeader THEN PeFail(0, "open file: ")
    ELSE IF ~f.mz THEN NewFileAt(f, 0)
    ELSE After(<<<<f.e_lfanew, 4>>>>,
      IF f.e_lfanew + 4 > f.size THEN PeFail(0, "Invalid PE COFF file signature of ")
      ELSE IF ~signOk(f.sign) THEN PeFail(1, "Invalid PE COFF file signature of [")
      ELSE NewFileAt(f, f.e_lfanew + 4)))

\* optional-header sizes: none, PE32 and PE32+ with 16 data directories,
\* PE32+ with 14 (224 bytes) and with 15
OptSizes == {0, OptionalHeader32Len, OptionalHeader64Len, 112 + 8 * 15}

PeInputs ==
  {[openable |-> o, size |-> sz, mz |-> mz, e_lfanew |-> l, sign |-> sg, SizeOfOptionalHeader |-> os, Magic |-> m, strtab |-> st, symbols |-> sy] :
     o \in BOOLEAN, sz \in {0, 63, 64, 130, 1024}, mz \in BOOLEAN, l \in {64, 128, 2000}, sg \in {SignPE, <<78, 69, 0, 0>>, <<80, 69, 0, 1>>},
     os \in OptSizes, m \in {267, 523}, st \in BOOLEAN, sy \in BOOLEAN}

NoPe == [openable |-> FALSE, size |-> 0, mz |-> FALSE, e_lfanew |-> 0, sign |-> <<0, 0, 0, 0>>, SizeOfOptionalHeader |-> 0, Magic |-> 0, strtab |-> FALSE, symbols |-> FALSE]
NoPeOut == PeFail(0, "not called")

OpenPe ==
  /\ pc = "pe"
  /\ peOut = NoPeOut
  /\ peOut' = NewFile(peIn)
  /\ UNCHANGED <<ar, fd, size, comment, files, uncompressedSize, compressedSize, ec, d, i, pc, br, iolog, hdrIn, hdrOut, peIn>>

NoArchive == MkArchive(Q0)
NoEntry == Entry(WZero, 0, <<33, 0>>, WZero, WZero, WZero, <<>>, "no")

\* a Reader as constructed, about to open archive a
ReaderInit(a) ==
  /\ ar = a
  /\ fd = "INVALID_HANDLE_VALUE"
  /\ size = -1
  /\ comment = <<0, 0>>
  /\ files = <<>>
  /\ uncompressedSize = WZero
  /\ compressedSize = WZero
  /\ ec = ErrNone
  /\ d = DirEnd0
  /\ i = 0
  /\ br = 0
  /\ iolog = <<>>

Init ==
  /\ \E a \in Archives : ReaderInit(a)
  /\ pc = "new"
  /\ hdrIn = NoEntry
  /\ hdrOut = NotCalled
  /\ peIn = NoPe
  /\ peOut = NoPeOut

Next == OpenReader \/ ReadDirectoryEnd \/ CheckRecords \/ ReadEntry \/ Finish

Spec == Init /\ [][Next]_vars

InitHdr ==
  /\ ReaderInit(NoArchive)
  /\ pc = "header"
  /\ hdrIn \in HdrInputs
  /\ hdrOut = NotCalled
  /\ peIn = NoPe
  /\ peOut = NoPeOut

NextHdr == DecodeHeader

SpecHdr == InitHdr /\ [][NextHdr]_vars

InitPE ==
  /\ ReaderInit(NoArchive)
  /\ pc = "pe"
  /\ hdrIn = NoEntry
  /\ hdrOut = NotCalled
  /\ peIn \in PeInputs
  /\ peOut = NoPeOut

NextPE == OpenPe

SpecPE == InitPE /\ [][NextPE]_vars

----------------------------------------------------------------------------
(* Claims about Reader::Initialize and readDirectoryEnd (Spec).            *)

\* readDirectoryEnd has returned
AfterDirectoryEnd == pc \in {"checkRecords", "loop", "done", "failed"}

\* the block reads of readDirectoryEnd: the ReadAt requests that end at the
\* end of the file
BlockReads == {k \in 1..Len(iolog) : iolog[k].op = "ReadAt" /\ iolog[k].pos + iolog[k].len = ar.size}

\* a per-entry read or the positioning before it was issued
EntryIo == \E k \in 1..Len(iolog) : iolog[k].op \in {"PositionAt", "readDirectoryHeader"}

\* readDirectoryEnd returned "not a valid zip file" for want of a signature
NotFound == pc = "failed" /\ ec = ErrNotZip /\ d = DirEnd0 /\ ~EntryIo

\* an end record whose comment fits the file lies within the last w bytes
ValidWithin(w) == \E c \in ar.eocds : c.back >= 22 /\ c.n + 22 <= c.back /\ c.back <= w

Min(x, y) == IF x < y THEN x ELSE y

\* C1: when the resolved entry count exceeds size / 30, Initialize fails
\* with the "impossible count" error, and neither PositionAt nor
\* readDirectoryHeader was ever called.
C1_ImpossibleCountRejected ==
  (pc \in {"loop", "done", "failed"} /\ readDirectoryEnd(ar, size, ErrNone).ok /\ WLess(WOfInt(size \div 30), d.directoryRecords))
    => (pc = "failed" /\ ec = ErrTOC /\ ~EntryIo /\ files = <<>>)

\* C1 witness: a count of 10,000,000 taken from the Zip64 end record was
\* rejected
C1_Witness == pc = "failed" /\ ec = ErrTOC /\ d.directoryRecords = TenMillion /\ Len(iolog) = 3

\* C2 as claimed: the second pass reads the last 64 KiB, and the call fails
\* when no valid signature lies within the last 64 KiB.
C2_Original ==
  AfterDirectoryEnd =>
    /\ iolog[1] = IoReq("ReadAt", Min(1024, size), size - Min(1024, size))
    /\ ValidWithin(1024) => (Cardinality(BlockReads) = 1 /\ ~NotFound)
    /\ (~ValidWithin(1024) /\ size > 1024) => (Cardinality(BlockReads) = 2 /\ iolog[2] = IoReq("ReadAt", Min(64 * 1024, size), size - Min(64 * 1024, size)))
    /\ (~ValidWithin(1024) /\ ValidWithin(64 * 1024)) => ~NotFound
    /\ ~ValidWithin(64 * 1024) => NotFound

\* C2 amended: at most two passes, the last min(1 KiB, size) bytes and then,
\* only if that found nothing and size > 1 KiB, the last min(65 KiB, size)
\* bytes; a valid signature within 1 KiB is found with one read, one only
\* between 1 KiB and 65 KiB with two, and with none within 65 KiB the call
\* fails with "not a valid zip file".
C2_TwoPasses ==
  AfterDirectoryEnd =>
    /\ iolog[1] = IoReq("ReadAt", Min(1024, size), size - Min(1024, size))
    /\ ValidWithin(1024) => (Cardinality(BlockReads) = 1 /\ ~NotFound)
    /\ (~ValidWithin(1024) /\ size <= 1024) => (Cardinality(BlockReads) = 1 /\ NotFound)
    /\ (~ValidWithin(1024) /\ size > 1024) => (Cardinality(BlockReads) = 2 /\ iolog[2] = IoReq("ReadAt", Min(65 * 1024, size), size - Min(65 * 1024, size)))
    /\ (~ValidWithin(1024) /\ size > 1024 /\ ValidWithin(65 * 1024)) => ~NotFound
    /\ ~ValidWithin(65 * 1024) => NotFound

\* C2 witness: a record lying between 64 KiB and 65 KiB from the end was
\* found on the second pass
C2_Witness == pc = "checkRecords" /\ Cardinality(BlockReads) = 2 /\ ~ValidWithin(64 * 1024) /\ ValidWithin(65 * 1024)

\* the archive has one end-record signature, and readDirectoryEnd decoded it
OneRecordDecoded == AfterDirectoryEnd /\ Cardinality(ar.eocds) = 1 /\ ~NotFound /\ ~(pc = "failed" /\ ec = ErrCommentLen)

TheRecord == CHOOSE c \in ar.eocds : TRUE

\* the 20 bytes before the end record were read
LocatorRead == \E k \in 1..Len(iolog) : iolog[k] = IoReq("ReadAt", 20, ar.size - TheRecord.back - 20)

\* a field of the end record holds its format sentinel
HasSentinel(c) == c.records = 65535 \/ c.dirSize = W32(65535, 65535) \/ c.dirOffset = W32(65535, 65535)

\* C3 as claimed: the Zip64 locator is read exactly when the entry count is
\* 0xFFFF, the directory size is 0xFFFFFFFF or the directory offset is
\* 0xFFFFFFFF (for end records at least 20 bytes into the file).
C3_Original ==
  (OneRecordDecoded /\ ar.size - TheRecord.back >= 20) => (LocatorRead <=> HasSentinel(TheRecord))

\* no Zip64 end record can be located from the end record c
NoBacking(c) ==
  \/ ar.size - c.back < 20
  \/ c.loc.sig # directory64LocSignature
  \/ c.loc.disk # WZero
  \/ c.loc.total # W32(1, 0)
  \/ c.loc.p = WZero
  \/ WNegative(c.loc.p)

\* C4 as claimed: with a sentinel in the end record and no Zip64 record to
\* back it, readDirectoryEnd does not return success.
C4_Original ==
  (OneRecordDecoded /\ HasSentinel(TheRecord) /\ NoBacking(TheRecord)) => pc = "failed" /\ ~EntryIo

RECURSIVE SumOf(_, _)
SumOf(fs, usize) == IF fs = <<>> THEN WZero ELSE WAdd(IF usize THEN Head(fs).uncompressedSize ELSE Head(fs).compressedSize, SumOf(Tail(fs), usize))

\* the index in ar.entries of the entry at the resolved directory offset
FirstIndex == CHOOSE j \in 1..Len(ar.entries) : WOfInt(EntryOff(ar, j)) = d.directoryOffset

\* C8: after every iteration the totals are the sums over the entries
\* decoded so far (i of them); on success the list holds directoryRecords
\* entries, in directory order.
C8_TotalsAreSums ==
  /\ uncompressedSize = SumOf(files, TRUE)
  /\ compressedSize = SumOf(files, FALSE)
  /\ pc \in {"loop", "done"} => Len(files) = i
  /\ pc = "done" => /\ WOfInt(Len(files)) = d.directoryRecords
                    /\ \A k \in 1..Len(files) : files[k] = readDirectoryHeader(ar.entries[FirstIndex + k - 1]).file

\* C8 witness: two entries decoded, the second with an 8-byte compressed size
C8_Witness == pc = "done" /\ Len(files) = 2 /\ files[2].compressedSize = Val64[1] /\ compressedSize = WAdd(W32(10, 0), Val64[1])

\* the failure came from readDirectoryHeader
EntryFailed == pc = "failed" /\ Len(iolog) > 0 /\ iolog[Len(iolog)].op = "readDirectoryHeader"

\* C9 as claimed: when an entry fails to decode, the Reader shows nothing of
\* the archive: no files, no comment, totals zero.
C9_Original ==
  EntryFailed => (files = <<>> /\ comment = <<0, 0>> /\ uncompressedSize = WZero /\ compressedSize = WZero)

----------------------------------------------------------------------------
(* Claims about readDirectoryHeader (SpecHdr).                             *)

HeaderDecoded == pc = "header" /\ hdrOut # NotCalled

\* the positions in the chain of the fields with one of the tags
FieldsOf(xf, tags) == {j \in 1..Len(xf) : xf[j].tag \in tags /\ Len(xf[j].data) = xf[j].size}

FirstOf(S) == CHOOSE j \in S : \A k \in S : j <= k

LastOf(S) == CHOOSE j \in S : \A k \in S : k <= j

B2N(b) == IF b THEN 1 ELSE 0

\* C5: the first Zip64 block of an entry supplies 8-byte values for exactly
\* the fields whose fixed value is the sentinel, taken in the order
\* uncompressed size, compressed size, offset; the other fields keep their
\* fixed values; a block with fewer values than sentinel fields fails the
\* header.
C5_Zip64InOrder ==
  (HeaderDecoded /\ FieldsOf(hdrIn.xf, {zip64ExtraID}) # {}) =>
    LET V == hdrIn.xf[FirstOf(FieldsOf(hdrIn.xf, {zip64ExtraID}))].vals
        nu == hdrIn.uncompressedSize = W32(65535, 65535)
        ns == hdrIn.compressedSize = W32(65535, 65535)
        no == hdrIn.position = W32(65535, 65535)
    IN  IF B2N(nu) + B2N(ns) + B2N(no) > Len(V)
        THEN ~hdrOut.ok /\ hdrOut.ec = ErrNotZip
        ELSE /\ hdrOut.ok
             /\ hdrOut.file.uncompressedSize = IF nu THEN V[1] ELSE hdrIn.uncompressedSize
             /\ hdrOut.file.compressedSize = IF ns THEN V[B2N(nu) + 1] ELSE hdrIn.compressedSize
             /\ hdrOut.file.position = IF no THEN V[B2N(nu) + B2N(ns) + 1] ELSE hdrIn.position

\* C5 witness: uncompressed size and offset were sentinels, the compressed
\* size was not, and a block of two values filled the two in order
C5_Witness ==
  /\ HeaderDecoded /\ hdrOut.ok
  /\ hdrIn.uncompressedSize = SizeMin /\ hdrIn.compressedSize = W32(10, 0) /\ hdrIn.position = OffsetMin
  /\ hdrOut.file.uncompressedSize = Val64[1] /\ hdrOut.file.compressedSize = W32(10, 0) /\ hdrOut.file.position = Val64[2]

\* C6 as claimed: for an entry with a UNIX or Info-ZIP UNIX field of at
\* least 8 bytes (and no NTFS or extended-timestamp field), the entry's time
\* is the Unix time in bytes 4..7 of the field.
C6_Original ==
  (HeaderDecoded /\ hdrOut.ok /\ FieldsOf(hdrIn.xf, {unixExtraID, infoZipUnixExtraID}) # {} /\ FieldsOf(hdrIn.xf, {ntfsExtraID, extTimeExtraID}) = {}) =>
    LET f == hdrIn.xf[LastOf(FieldsOf(hdrIn.xf, {unixExtraID, infoZipUnixExtraID}))]
    IN  f.size >= 8 => ToUnixSeconds(hdrOut.file.time) = f.vals[2]

\* C7: for an entry of method 99 with a WinZip AES field of at least 7 bytes,
\* aesVersion is the 16-bit value at bytes 0..1, aesStrength the byte at
\* offset 4, and method the 16-bit value at bytes 5..6 (of the last such
\* field).
C7_AesFields ==
  (HeaderDecoded /\ hdrOut.ok /\ hdrIn.method = 99 /\ \E j \in FieldsOf(hdrIn.xf, {winzipAesExtraID}) : hdrIn.xf[j].size >= 7) =>
    LET f == hdrIn.xf[LastOf({j \in FieldsOf(hdrIn.xf, {winzipAesExtraID}) : hdrIn.xf[j].size >= 7})]
    IN  /\ WOfInt(hdrOut.file.aesVersion) = f.vals[1]
        /\ WOfInt(hdrOut.file.aesStrength) = f.vals[2]
        /\ WOfInt(hdrOut.file.method) = f.vals[3]

\* C7 witness: version 1, strength 1 and method 270 were taken from the field
C7_Witness ==
  /\ HeaderDecoded /\ hdrOut.ok /\ hdrIn.method = 99
  /\ hdrOut.file.aesVersion = 1 /\ hdrOut.file.aesStrength = 1 /\ hdrOut.file.method = 270

----------------------------------------------------------------------------
(* Claims about bela::pe::File::NewFile (SpecPE).                          *)

\* NewFile returned a File for an image: 'MZ', "PE\0\0", and an optional
\* header that lies within the file
PeParsed == pc = "pe" /\ peOut.ok /\ peIn.mz /\ peIn.SizeOfOptionalHeader >= 2 /\ peOut.base + 20 + peIn.SizeOfOptionalHeader <= peIn.size

\* C10 as claimed: after a successful parse Is64Bit() is true exactly when
\* the optional header's magic is 0x20b, and false exactly when it is 0x10b.
C10_Original ==
  PeParsed => /\ peIn.Magic = 523 => peOut.is64bit
              /\ peIn.Magic = 267 => ~peOut.is64bit

\* the file can be opened and holds a whole DosHeader
DosRead == pc = "pe" /\ peOut # NoPeOut /\ peIn.openable /\ peIn.size >= 64

----------------------------------------------------------------------------
(* bela::pe::File::getSection (src/include/bela/pe.hpp).                   *)
(* A section is [VirtualAddress, VirtualSize, Offset, Size], each a        *)
(* uint32_t kept as a wide value.                                          *)

MaxSections == 2

\* uint32_t + uint32_t: the sum modulo 2^32
Add32(a, b) == LET x == WAdd(a, b) IN <<x[1], x[2], 0, 0>>

\* uint32_t - uint32_t: the difference modulo 2^32
Sub32(a, b) == LET x == WSub(a, b) IN <<x[1], x[2], 0, 0>>

WLessEq(a, b) == ~WLess(b, a)

\* line 472: the test of getSection on one section
sectionHolds(sec, rva) == WLessEq(sec.VirtualAddress, rva) /\ WLess(rva, Add32(sec.VirtualAddress, sec.VirtualSize))

\* lines 468-477: the index of the section returned, 0 for nullptr
getSection(sections, rva) ==
  IF \E j \in 1..Len(sections) : sectionHolds(sections[j], rva)
  THEN CHOOSE j \in 1..Len(sections) : sectionHolds(sections[j], rva) /\ \A k \in 1..(j - 1) : ~sectionHolds(sections[k], rva)
  ELSE 0

\* section tables: addresses 0, 0x1000, 0x2000, 0xFFFFF000 and virtual
\* sizes 0, 0x1000, 0x2000, 0xFFFFFFFF
Rvas == {WZero, W32(4096, 0), W32(6144, 0), W32(12287, 0), W32(12288, 0), W32(63488, 65535)}

VaSections == {[VirtualAddress |-> va, VirtualSize |-> vs, Offset |-> WZero, Size |-> WZero] : va \in {WZero, W32(4096, 0), W32(8192, 0), W32(61440, 65535)}, vs \in {WZero, W32(4096, 0), W32(8192, 0), W32(65535, 65535)}}

SectionTables(n) == UNION {[1..k -> VaSections] : k \in 0..n}

NoSection == [called |-> FALSE, index |-> 0]

GetSection ==
  /\ pc = "getSection"
  /\ peOut = NoSection
  /\ peOut' = [called |-> TRUE, index |-> getSection(peIn.sections, peIn.rva)]
  /\ UNCHANGED <<ar, fd, size, comment, files, uncompressedSize, compressedSize, ec, d, i, pc, br, iolog, hdrIn, hdrOut, peIn>>

InitSection ==
  /\ ReaderInit(NoArchive)
  /\ pc = "getSection"
  /\ hdrIn = NoEntry
  /\ hdrOut = NotCalled
  /\ peIn \in {[sections |-> t, rva |-> r] : t \in SectionTables(MaxSections), r \in Rvas}
  /\ peOut = NoSection

NextSection == GetSection

SpecSection == InitSection /\ [][NextSection]_vars

\* the RVA lies in [VirtualAddress, VirtualAddress + VirtualSize), the sum
\* being the sum of the two numbers
InRange(sec, rva) == WLessEq(sec.VirtualAddress, rva) /\ WLess(rva, WAdd(sec.VirtualAddress, sec.VirtualSize))

\* C12 as claimed: getSection returns the first section in table order whose
\* range [VirtualAddress, VirtualAddress + VirtualSize) contains the RVA, and
\* null when no section's range contains it.
C12_Original ==
  (pc = "getSection" /\ peOut.called) =>
    LET hits == {j \in 1..Len(peIn.sections) : InRange(peIn.sections[j], peIn.rva)}
    IN  IF hits = {} THEN peOut.index = 0
        ELSE peOut.index \in hits /\ \A k \in hits : peOut.index <= k

----------------------------------------------------------------------------
(* bela::pe::File::LookupExports (src/src/belawin/pe/file.cc:94-165).      *)
(* The File is [ddlen, exd, sections, readOk, dataSize, ied, words,        *)
(* dwords, junk, exports]: ddlen is NumberOfRvaAndSizes, exd the RVA of    *)
(* data directory 0, readOk and dataSize the outcome of readSectionData on *)
(* the section found, ied the IMAGE_EXPORT_DIRECTORY stored at the         *)
(* directory's place in the section data, words and dwords the 16- and     *)
(* 32-bit values the data holds (the word at offset o is                   *)
(* words[(o / 2) % 3 + 1]), junk the value a read outside the data gives,  *)
(* exports the vector the caller passes.  size_t is 64 bits wide.          *)

\* sizeof(IMAGE_EXPORT_DIRECTORY)
SizeofExportDirectory == 40

\* a read of width bytes at the size_t offset off lies within n bytes of data
Within(off, width, n) == WIsSmall(off) /\ WToInt(off) + width <= n

\* cast_fromle<uint16_t>(off) and cast_fromle<uint32_t>(off) on the data of f
Word16At(f, off) == IF Within(off, 2, f.dataSize) THEN f.words[((WToInt(off) \div 2) % 3) + 1] ELSE f.junk

Dword32At(f, off) == IF Within(off, 4, f.dataSize) THEN f.dwords[((WToInt(off) \div 4) % 2) + 1] ELSE WOfInt(f.junk)

\* a value-initialized ExportedSymbol (pe.hpp:287-294); Name is kept as the
\* offset its string is taken from, all ones for the empty string
Symbol0 == [Name |-> WMinusOne, Address |-> WZero, Ordinal |-> 65535, Hint |-> 0]

\* std::vector::resize(n)
Resize(v, n) == [j \in 1..n |-> IF j <= Len(v) THEN v[j] ELSE Symbol0]

\* the RVA a lies strictly inside the section, as lines 134, 144, 152 test it
tableInSection(a, ds) == WLess(ds.VirtualAddress, a) /\ WLess(a, Add32(ds.VirtualAddress, ds.VirtualSize))

\* 4 * k as an unsigned int, for an int k
Times4(k) == IF k >= 0 THEN WOfInt(4 * k) ELSE Sub32(WZero, WOfInt(4 * (0 - k)))

\* lines 134-143: the name-ordinal table; yields the vector and the reads
exportOrdinals(f, ds, ex) ==
  LET L == Sub32(f.ied.AddressOfNameOrdinals, ds.VirtualAddress)
      ordinalBase == f.ied.Base[1]
  IN  IF tableInSection(f.ied.AddressOfNameOrdinals, ds) /\ WLess(WOfInt(Len(ex) * 2), WSub(WOfInt(f.dataSize), L))
      THEN [ex |-> [j \in 1..Len(ex) |-> [ex[j] EXCEPT !.Ordinal = (Word16At(f, WAdd(L, WOfInt(2 * (j - 1)))) + ordinalBase) % 65536, !.Hint = j - 1]],
            reads |-> [j \in 1..Len(ex) |-> [off |-> WAdd(L, WOfInt(2 * (j - 1))), width |-> 2]]]
      ELSE [ex |-> ex, reads |-> <<>>]

\* lines 144-151: the name-pointer table
exportNames(f, ds, ex) ==
  LET N == Sub32(f.ied.AddressOfNames, ds.VirtualAddress)
  IN  IF tableInSection(f.ied.AddressOfNames, ds) /\ WLessEq(WOfInt(Len(ex) * 4), WSub(WOfInt(f.dataSize), N))
      THEN [ex |-> [j \in 1..Len(ex) |-> [ex[j] EXCEPT !.Name = Sub32(Dword32At(f, WAdd(N, WOfInt(4 * (j - 1)))), ds.VirtualAddress)]],
            reads |-> [j \in 1..Len(ex) |-> [off |-> WAdd(N, WOfInt(4 * (j - 1))), width |-> 4]]]
      ELSE [ex |-> ex, reads |-> <<>>]

\* line 156: the offset of the function address of one symbol
functionOffset(L, ordinal, ordinalBase) == Add32(L, Times4(ordinal - ordinalBase))

\* line 155: the test that guards the read of one function address
functionGuard(f, L, ordinal) == WLess(WOfInt(ordinal * 4 + 4), WSub(WOfInt(f.dataSize), L))

\* lines 152-159: the function-address table
exportFunctions(f, ds, ex) ==
  LET L == Sub32(f.ied.AddressOfFunctions, ds.VirtualAddress)
      ordinalBase == f.ied.Base[1]
      hit == {j \in 1..Len(ex) : functionGuard(f, L, ex[j].Ordinal)}
  IN  IF tableInSection(f.ied.AddressOfFunctions, ds)
      THEN [ex |-> [j \in 1..Len(ex) |-> IF j \in hit THEN [ex[j] EXCEPT !.Address = Dword32At(f, functionOffset(L, ex[j].Ordinal, ordinalBase))] ELSE ex[j]],
            reads |-> [j \in 1..Cardinality(hit) |-> LET k == CHOOSE k \in hit : Cardinality({h \in hit : h < k}) = j - 1
                                                     IN  [off |-> functionOffset(L, ex[k].Ordinal, ordinalBase), width |-> 4]]]
      ELSE [ex |-> ex, reads |-> <<>>]

\* pe.hpp:382-387: direct_cast<T>(offset) on n bytes returns a pointer
direct_cast(offset, sizeofT, n) == ~WLess(WOfInt(n), WAdd(offset, WOfInt(sizeofT)))

\* pe.hpp:444-466: getDataDirectory(dirIndex) returns an entry
getDataDirectory(f, dirIndex) == dirIndex < 16 /\ f.ddlen >= 2

\* what LookupExports returns before the sort: exports is the vector, sorted
\* whether line 160 was reached, dataRead whether readSectionData was called,
\* reads the cast_fromle calls
ExportsResult(ok, code, ex, sorted, dataRead, reads) == [ok |-> ok, code |-> code, exports |-> ex, sorted |-> sorted, dataRead |-> dataRead, reads |-> reads]

\* lines 94-159: LookupExports up to the sort
LookupExports(f) ==
  IF ~getDataDirectory(f, 0) THEN ExportsResult(TRUE, 0, f.exports, FALSE, FALSE, <<>>)
  ELSE IF getSection(f.sections, f.exd) = 0 THEN ExportsResult(TRUE, 0, f.exports, FALSE, FALSE, <<>>)
  ELSE IF ~f.readOk THEN ExportsResult(FALSE, 1, f.exports, FALSE, TRUE, <<>>)
  ELSE LET ds == f.sections[getSection(f.sections, f.exd)]
       IN  IF ~direct_cast(Sub32(f.exd, ds.VirtualAddress), SizeofExportDirectory, f.dataSize) THEN ExportsResult(TRUE, 0, f.exports, FALSE, TRUE, <<>>)
           ELSE IF f.ied.NumberOfNames = 0 THEN ExportsResult(TRUE, 0, f.exports, FALSE, TRUE, <<>>)
           ELSE LET a == exportOrdinals(f, ds, Resize(f.exports, f.ied.NumberOfNames))
                    b == exportNames(f, ds, a.ex)
                    c == exportFunctions(f, ds, b.ex)
                IN  ExportsResult(TRUE, 0, c.ex, TRUE, TRUE, a.reads \o b.reads \o c.reads)

\* a vector left in the order it had
keepOrder(v) == {v}

\* lines 160-163: std::sort by Ordinal; the order of equal ordinals is not
\* specified, so every sorted arrangement is a possible outcome
sortByOrdinal(v) ==
  {[j \in 1..Len(v) |-> v[q[j]]] : q \in {q \in [1..Len(v) -> 1..Len(v)] : (\A x, y \in 1..Len(v) : x # y => q[x] # q[y]) /\ (\A x \in 1..(Len(v) - 1) : v[q[x]].Ordinal <= v[q[x + 1]].Ordinal)}}

SecA == [VirtualAddress |-> W32(4096, 0), VirtualSize |-> W32(4096, 0), Offset |-> W32(1024, 0), Size |-> W32(512, 0)]
Sec0 == [VirtualAddress |-> WZero, VirtualSize |-> W32(4096, 0), Offset |-> W32(512, 0), Size |-> W32(512, 0)]

Ied(base, names, ords, nms, fns) == [Base |-> base, NumberOfNames |-> names, AddressOfNameOrdinals |-> ords, AddressOfNames |-> nms, AddressOfFunctions |-> fns]

ExpFile(ddlen, exd, sections, readOk, dataSize, ied, words, junk, ex) == [ddlen |-> ddlen, exd |-> exd, sections |-> sections, readOk |-> readOk, dataSize |-> dataSize, ied |-> ied, words |-> words, dwords |-> <<W32(4196, 0), WZero>>, junk |-> junk, exports |-> ex]

\* a vector the caller filled before the call, not in ordinal order
Unsorted == <<[Symbol0 EXCEPT !.Ordinal = 7], [Symbol0 EXCEPT !.Ordinal = 3]>>

\* files for the paths that end before the tables are read
AbsentChoices ==
  {ExpFile(n, exd, t, r, sz, Ied(W32(1, 0), nn, W32(4156, 0), W32(4136, 0), W32(4176, 0)), <<2, 0, 1>>, 0, ex) :
     n \in {0, 1, 16}, exd \in {WZero, W32(4096, 0), W32(4112, 0), W32(20480, 0)}, t \in {<<>>, <<SecA>>, <<Sec0>>, <<Sec0, SecA>>},
     r \in BOOLEAN, sz \in {0, 39, 55, 56, 100}, nn \in {0, 2}, ex \in {<<>>, Unsorted}}

\* files whose export directory is at the start of SecA, with tables inside
\* the data, at its end, past its end but inside the virtual range, and absent
TableChoices ==
  {ExpFile(16, W32(4096, 0), <<SecA>>, TRUE, sz, Ied(base, nn, ords, nms, fns), w, jk, <<>>) :
     sz \in {100, 512}, base \in {WZero, W32(1, 0), W32(65535, 0)}, nn \in {2, 3},
     ords \in {WZero, W32(4096, 0), W32(4156, 0), W32(4192, 0), W32(6144, 0)},
     nms \in {WZero, W32(4136, 0), W32(6144, 0)}, fns \in {WZero, W32(4176, 0), W32(6144, 0)},
     w \in {<<2, 0, 1>>, <<65535, 5, 5>>}, jk \in {0, 9}}

NoExports == [called |-> FALSE]

CallLookupExports ==
  /\ pc = "LookupExports"
  /\ peOut = NoExports
  /\ LET r == LookupExports(peIn)
     IN  \E e \in (IF r.sorted THEN sortByOrdinal(r.exports) ELSE keepOrder(r.exports)) :
           peOut' = [called |-> TRUE, ok |-> r.ok, code |-> r.code, exports |-> e, sorted |-> r.sorted, dataRead |-> r.dataRead, reads |-> r.reads]
  /\ UNCHANGED <<ar, fd, size, comment, files, uncompressedSize, compressedSize, ec, d, i, pc, br, iolog, hdrIn, hdrOut, peIn>>

InitExports ==
  /\ ReaderInit(NoArchive)
  /\ pc = "LookupExports"
  /\ hdrIn = NoEntry
  /\ hdrOut = NotCalled
  /\ peIn \in AbsentChoices \cup TableChoices
  /\ peOut = NoExports

NextExports == CallLookupExports

SpecExports == InitExports /\ [][NextExports]_vars

----------------------------------------------------------------------------
(* Claims about LookupExports (SpecExports).                               *)

ExportsCalled == pc = "LookupExports" /\ peOut.called

\* C13 as claimed: when data directory 0 has RVA 0, LookupExports returns
\* success with the list empty and no error, and reads no section data.
C13_Original ==
  (ExportsCalled /\ peIn.exd = <<0, 0, 0, 0>> /\ peIn.exports = <<>>) =>
    (peOut.ok /\ peOut.code = 0 /\ peOut.exports = <<>> /\ ~peOut.dataRead)

\* C14 as claimed: every read LookupExports makes in the section data lies
\* within the data: offset + width <= size of the data.
C14_Original ==
  ExportsCalled => \A k \in 1..Len(peOut.reads) :
    /\ peOut.reads[k].off[3] = 0 /\ peOut.reads[k].off[4] = 0 /\ peOut.reads[k].off[2] < 32768
    /\ peOut.reads[k].off[1] + 65536 * peOut.reads[k].off[2] + peOut.reads[k].width <= peIn.dataSize

\* the section that holds the export directory, by the numbers
OwnerOf(f) == CHOOSE j \in 1..Len(f.sections) : InRange(f.sections[j], f.exd) /\ \A k \in 1..(j - 1) : ~InRange(f.sections[k], f.exd)

\* the export directory is present: the entry exists, its RVA is not 0 and
\* lies in a section, and the section's data was read
ExportsPresent(f) == f.ddlen = 16 /\ f.exd # <<0, 0, 0, 0>> /\ (\E j \in 1..Len(f.sections) : InRange(f.sections[j], f.exd)) /\ f.readOk

\* the record does not fit the data, or there are names and one of the three
\* tables does not lie in the owning section
ExportsMalformed(f) ==
  LET ds == f.sections[OwnerOf(f)]
  IN  \/ WLess(WOfInt(f.dataSize), WAdd(WSub(f.exd, ds.VirtualAddress), <<40, 0, 0, 0>>))
      \/ /\ f.ied.NumberOfNames > 0
         /\ \E a \in {f.ied.AddressOfNames, f.ied.AddressOfNameOrdinals, f.ied.AddressOfFunctions} : ~InRange(ds, a)

\* C15 as claimed: a present export directory whose record does not fit the
\* section data, or one of whose three tables lies outside the owning
\* section, makes LookupExports return false with an error.
C15_Original ==
  (ExportsCalled /\ ExportsPresent(peIn) /\ ExportsMalformed(peIn)) => (~peOut.ok /\ peOut.code # 0)

IsSortedByOrdinal(v) == \A k \in 1..(Len(v) - 1) : v[k].Ordinal <= v[k + 1].Ordinal

\* C16: whenever LookupExports returns success, the list is in
\* non-decreasing Ordinal order, or it is the caller's vector left as it was
\* passed (the paths that return before any symbol is decoded); for a vector
\* passed empty the list is always sorted.
C16_SortedByOrdinal ==
  (ExportsCalled /\ peOut.ok) =>
    /\ IsSortedByOrdinal(peOut.exports) \/ peOut.exports = peIn.exports
    /\ peIn.exports = <<>> => IsSortedByOrdinal(peOut.exports)

\* C16 witness: three symbols read in the order 3, 1, 2 were returned in the
\* order 1, 2, 3
C16_Witness ==
  /\ ExportsCalled /\ peOut.ok /\ Len(peOut.exports) = 3
  /\ peOut.exports[1].Ordinal = 1 /\ peOut.exports[1].Hint = 1
  /\ peOut.exports[2].Ordinal = 2 /\ peOut.exports[2].Hint = 2
  /\ peOut.exports[3].Ordinal = 3 /\ peOut.exports[3].Hint = 0

----------------------------------------------------------------------------
(* File::LookupOverlay (src/unnamed/part_007, lines 5-26).  The file's     *)
(* size and the limit are int64_t, the sections' Offset and Size uint32_t.  *)
(* PositionAt and ReadFull are calls on the file descriptor: whether each   *)
(* succeeds is an input, and the call is recorded in the log.               *)

\* pe.hpp line 18: 64 * 1024 * 1024
LimitOverlaySize == W32(0, 1024)

\* a < b as int64_t
SLess(a, b) ==
  IF WNegative(a) # WNegative(b) THEN WNegative(a) ELSE WLess(a, b)

\* line 8: static_cast<int64_t>(sec.Header.Offset + sec.Header.Size), the
\* sum being taken in uint32_t before the conversion
sectionEnd(sec) == Add32(sec.Offset, sec.Size)

\* the same with the sum taken in 64 bits
sectionEndWide(sec) == WAdd(sec.Offset, sec.Size)

\* lines 6-11: the loop over the sections
RECURSIVE overlayStartFrom(_, _, _)
overlayStartFrom(sections, k, start) ==
  IF k > Len(sections) THEN start
  ELSE overlayStartFrom(sections, k + 1, IF SLess(start, sectionEnd(sections[k])) THEN sectionEnd(sections[k]) ELSE start)

overlayStart(sections) == overlayStartFrom(sections, 1, WZero)

\* line 13: overlayLen <= 0
noOverlay(overlayLen) == ~SLess(WZero, overlayLen)

\* the limit test left out
overLimitNever(overlayLen, limitsize) == FALSE

\* line 17: overlayLen > limitsize
overLimit(overlayLen, limitsize) == SLess(limitsize, overlayLen)

OverlayResult(ok, code, data, io) == [ok |-> ok, code |-> code, overlayData |-> data, io |-> io]

\* lines 5-26
LookupOverlay(f) ==
  LET start == overlayStart(f.sections)
      overlayLen == WSub(f.size, start)
      seek == <<"PositionAt", start>>
      read == <<"ReadFull", overlayLen>>
  IN  IF noOverlay(overlayLen) THEN OverlayResult(FALSE, "ErrNoOverlay", f.overlayData, <<>>)
      ELSE IF overLimit(overlayLen, f.limitsize) THEN OverlayResult(FALSE, "ErrGeneral", f.overlayData, <<>>)
      ELSE IF ~f.posOk THEN OverlayResult(FALSE, "PositionAt", f.overlayData, <<seek>>)
      ELSE IF ~f.readOk THEN OverlayResult(FALSE, "ReadFull", [size |-> overlayLen, from |-> "unspecified"], <<seek, read>>)
      ELSE OverlayResult(TRUE, "", [size |-> overlayLen, from |-> start], <<seek, read>>)

\* sections with file offsets 0x400, 0x80000000, 0xFFFFFFFF and raw sizes
\* 0, 2, 0xC00, 0x80000000
RawSections == {[VirtualAddress |-> WZero, VirtualSize |-> WZero, Offset |-> o, Size |-> z] : o \in {W32(1024, 0), W32(0, 32768), W32(65535, 65535)}, z \in {WZero, W32(2, 0), W32(3072, 0), W32(0, 32768)}}

RawTables(n) == UNION {[1..k -> RawSections] : k \in 0..n}

\* file sizes 0, 4096, 64 MiB, 64 MiB + 4097, 4 GiB + 16
FileSizes == {WZero, W32(4096, 0), W32(0, 1024), W32(4097, 1024), <<16, 0, 1, 0>>}

\* limits -1, 0, 4095, 64 MiB (the default)
Limits == {WSub(WZero, W32(1, 0)), WZero, W32(4095, 0), LimitOverlaySize}

\* the vector as the caller passes it: empty, or holding 7 bytes
CallerData == {[size |-> WZero, from |-> "caller"], [size |-> W32(7, 0), from |-> "caller"]}

NoOverlayCall == [called |-> FALSE]

CallLookupOverlay ==
  /\ pc = "LookupOverlay"
  /\ peOut = NoOverlayCall
  /\ LET r == LookupOverlay(peIn)
     IN  peOut' = [called |-> TRUE, ok |-> r.ok, code |-> r.code, overlayData |-> r.overlayData, io |-> r.io, sections |-> peIn.sections, size |-> peIn.size]
  /\ UNCHANGED <<ar, fd, size, comment, files, uncompressedSize, compressedSize, ec, d, i, pc, br, iolog, hdrIn, hdrOut, peIn>>

InitOverlay ==
  /\ ReaderInit(NoArchive)
  /\ pc = "LookupOverlay"
  /\ hdrIn = NoEntry
  /\ hdrOut = NotCalled
  /\ peIn \in {[sections |-> t, size |-> s, limitsize |-> l, overlayData |-> v, posOk |-> p, readOk |-> r] :
                 t \in RawTables(MaxSections), s \in FileSizes, l \in Limits, v \in CallerData, p \in BOOLEAN, r \in BOOLEAN}
  /\ peOut = NoOverlayCall

NextOverlay == CallLookupOverlay

SpecOverlay == InitOverlay /\ [][NextOverlay]_vars

----------------------------------------------------------------------------
(* Claims about LookupOverlay (SpecOverlay).                               *)

OverlayCalled == pc = "LookupOverlay" /\ peOut.called

\* the maximum over the sections of Offset + Size, the sum being the sum of
\* the two numbers; 0 without sections
RECURSIVE MaxSectionEnd(_, _)
MaxSectionEnd(sections, k) ==
  IF k = 0 THEN WZero
  ELSE LET m == MaxSectionEnd(sections, k - 1)
           e == sectionEndWide(sections[k])
       IN  IF WLess(m, e) THEN e ELSE m

\* the overlay's start and length as the numbers the file gives
TrueStart == MaxSectionEnd(peIn.sections, Len(peIn.sections))

TrueLen == WSub(peIn.size, TrueStart)

\* C17: with start the maximum of Offset + Size and N = size - start, N > 0
\* within the limit yields exactly N bytes read from start (the two file
\* calls succeeding), and N <= 0 yields ErrNoOverlay and no data.
C17_Original ==
  OverlayCalled =>
    /\ (SLess(WZero, TrueLen) /\ ~SLess(peIn.limitsize, TrueLen) /\ peIn.posOk /\ peIn.readOk) =>
         (peOut.ok /\ peOut.overlayData = [size |-> TrueLen, from |-> TrueStart])
    /\ ~SLess(WZero, TrueLen) =>
         (~peOut.ok /\ peOut.code = "ErrNoOverlay" /\ peOut.overlayData = peIn.overlayData)

\* C18: when the file has an overlay longer than the limit, the call fails
\* with the over-limit error, the caller's vector is as it was passed, no
\* seek and no read was issued, and the file's sections and size are as
\* they were.
C18_OverLimit ==
  (OverlayCalled /\ SLess(WZero, TrueLen) /\ SLess(peIn.limitsize, TrueLen)) =>
    /\ ~peOut.ok /\ peOut.code = "ErrGeneral"
    /\ peOut.overlayData = peIn.overlayData
    /\ peOut.io = <<>>
    /\ peOut.sections = peIn.sections /\ peOut.size = peIn.size

\* C18 witness: a file of 64 MiB + 4097 bytes whose only section ends at
\* 4096, read with the default limit into a vector that held 7 bytes
C18_Witness ==
  /\ OverlayCalled
  /\ peIn.limitsize = LimitOverlaySize
  /\ TrueStart = W32(4096, 0) /\ TrueLen = W32(1, 1024)
  /\ peIn.overlayData.size = W32(7, 0)
  /\ peOut.code = "ErrGeneral"

----------------------------------------------------------------------------
(* SectionBuffer (src/include/bela/pe.hpp, lines 357-403; a second copy of *)
(* the class is in src/unnamed/part_004).  size_t is taken as 64 bits wide. *)
(* bela::cast_frombe is not in the sources: it is modelled as the           *)
(* big-endian value of the two bytes at the pointer.  A read through a      *)
(* pointer outside the buffer is undefined: it gives any 16-bit value.      *)

MaxBuf == 3

\* rawdata: up to MaxBuf bytes
Buffers == UNION {[1..n -> {1, 255}] : n \in 0..MaxBuf}

\* size_t offsets: 0 .. 4, 2^32 - 1, 2^64 - 40, 2^64 - 4, 2^64 - 2, 2^64 - 1
Offsets == {WOfInt(k) : k \in 0..4} \cup {W32(65535, 65535)} \cup {WSub(WZero, WOfInt(k)) : k \in {40, 4, 2, 1}}

\* sizeof(T) for uint16_t, uint32_t and IMAGE_EXPORT_DIRECTORY
SizeofTs == {2, 4, SizeofExportDirectory}

\* the range [offset, offset + width) lies inside a buffer of n bytes
RangeInside(offset, width, n) == WIsSmall(offset) /\ WToInt(offset) + width <= n

\* values a read outside the buffer may give
Junk16 == {0, 258, 65535}

\* bela::cast_frombe<uint16_t> at rawdata.data() + offset
cast_frombe16(rawdata, offset) ==
  IF RangeInside(offset, 2, Len(rawdata))
  THEN {rawdata[WToInt(offset) + 1] * 256 + rawdata[WToInt(offset) + 2]}
  ELSE Junk16

\* pe.hpp line 395: offset + 2 < rawdata.size()
hitGuard(offset, n) == WLess(WAdd(offset, WOfInt(2)), WOfInt(n))

\* part_004 line 376: offset + 2 > rawdata.size()
hitGuardPart004(offset, n) == WLess(WOfInt(n), WAdd(offset, WOfInt(2)))

\* lines 394-399: the values function_hit may return, with whether the
\* buffer's pointer was read through
function_hit(version, rawdata, offset) ==
  IF (IF version = "part_004" THEN hitGuardPart004(offset, Len(rawdata)) ELSE hitGuard(offset, Len(rawdata)))
  THEN {[value |-> 0, touched |-> FALSE]}
  ELSE {[value |-> v, touched |-> TRUE] : v \in cast_frombe16(rawdata, offset)}

NoBufferCall == [called |-> FALSE]

CallDirectCast ==
  /\ pc = "SectionBuffer"
  /\ peIn.op = "direct_cast"
  /\ peOut = NoBufferCall
  /\ peOut' = [called |-> TRUE, nonnull |-> direct_cast(peIn.offset, peIn.sizeofT, Len(peIn.rawdata))]
  /\ UNCHANGED <<ar, fd, size, comment, files, uncompressedSize, compressedSize, ec, d, i, pc, br, iolog, hdrIn, hdrOut, peIn>>

CallFunctionHit ==
  /\ pc = "SectionBuffer"
  /\ peIn.op = "function_hit"
  /\ peOut = NoBufferCall
  /\ \E r \in function_hit(peIn.version, peIn.rawdata, peIn.offset) :
       peOut' = [called |-> TRUE, value |-> r.value, touched |-> r.touched]
  /\ UNCHANGED <<ar, fd, size, comment, files, uncompressedSize, compressedSize, ec, d, i, pc, br, iolog, hdrIn, hdrOut, peIn>>

InitBuffer ==
  /\ ReaderInit(NoArchive)
  /\ pc = "SectionBuffer"
  /\ hdrIn = NoEntry
  /\ hdrOut = NotCalled
  /\ peIn \in {[op |-> "direct_cast", version |-> "pe.hpp", rawdata |-> b, offset |-> o, sizeofT |-> t] : b \in Buffers, o \in Offsets, t \in SizeofTs}
         \cup {[op |-> "function_hit", version |-> v, rawdata |-> b, offset |-> o, sizeofT |-> 2] : v \in {"pe.hpp", "part_004"}, b \in Buffers, o \in Offsets}
  /\ peOut = NoBufferCall

NextBuffer == CallDirectCast \/ CallFunctionHit

SpecBuffer == InitBuffer /\ [][NextBuffer]_vars

----------------------------------------------------------------------------
(* Claims about SectionBuffer (SpecBuffer).                                *)

BufferCalled(op) == pc = "SectionBuffer" /\ peIn.op = op /\ peOut.called

\* C19: direct_cast<T>(offset) returns a non-null pointer exactly when
\* [offset, offset + sizeof(T)) lies inside the buffer, for every offset.
C19_Original ==
  BufferCalled("direct_cast") =>
    (peOut.nonnull <=> RangeInside(peIn.offset, peIn.sizeofT, Len(peIn.rawdata)))

\* C20: function_hit(offset) decodes the two bytes at offset exactly when
\* offset + 2 <= size, and returns 0 without reading exactly when
\* offset + 2 > size.
C20_Original ==
  BufferCalled("function_hit") =>
    IF RangeInside(peIn.offset, 2, Len(peIn.rawdata))
    THEN peOut.touched /\ peOut.value = peIn.rawdata[WToInt(peIn.offset) + 1] * 256 + peIn.rawdata[WToInt(peIn.offset) + 2]
    ELSE ~peOut.touched /\ peOut.value = 0

\* C20 for the copy of the class in part_004 alone
C20_Part004 ==
  (BufferCalled("function_hit") /\ peIn.version = "part_004") => C20_Original

----------------------------------------------------------------------------
(* File::ReadFull (src/include/bela/pe.hpp, lines 418-434).  Each turn of   *)
(* the loop is one ReadFile call: it fails, or it stores dwSize bytes with  *)
(* 0 <= dwSize <= the number of bytes requested.                            *)

MaxRead == 5

\* static_cast<DWORD>(x) of a size_t
ToDword(x) == <<x[1], x[2], 0, 0>>

\* the whole length requested again at every turn
requestWhole(len, total) == ToDword(len)

\* line 423: static_cast<DWORD>(len - total)
request(len, total) == ToDword(WSub(len, total))

\* the byte counts ReadFile may store for a request
Yields(req) == {WOfInt(k) : k \in 0..(IF WIsSmall(req) /\ WToInt(req) < MaxRead THEN WToInt(req) ELSE MaxRead)}

\* lengths 0 .. MaxRead, 2^32, 2^32 + 1
ReadLens == {WOfInt(k) : k \in 0..MaxRead} \cup {<<0, 0, 1, 0>>, <<1, 0, 1, 0>>}

ReadFull0 == [state |-> "loop", total |-> WZero, ok |-> FALSE, code |-> "", log |-> <<>>]

\* lines 421-432: one turn of the loop in which ReadFile fails (423-426),
\* stores nothing (427-430) or stores some bytes (431)
ReadFullTurn ==
  /\ pc = "ReadFull"
  /\ peOut.state = "loop"
  /\ WLess(peOut.total, peIn.len)
  /\ LET req == request(peIn.len, peOut.total)
         entry(failed, got) == [before |-> peOut.total, requested |-> req, failed |-> failed, got |-> got]
     IN  \/ peOut' = [peOut EXCEPT !.state = "done", !.code = "ReadFile: ", !.log = Append(@, entry(TRUE, WZero))]
         \/ \E got \in Yields(req) :
              IF got = WZero
              THEN peOut' = [peOut EXCEPT !.state = "done", !.code = "ERROR_HANDLE_EOF", !.log = Append(@, entry(FALSE, got))]
              ELSE peOut' = [peOut EXCEPT !.total = WAdd(@, got), !.log = Append(@, entry(FALSE, got))]
  /\ UNCHANGED <<ar, fd, size, comment, files, uncompressedSize, compressedSize, ec, d, i, pc, br, iolog, hdrIn, hdrOut, peIn>>

\* lines 421 and 433: the loop's test fails and ReadFull returns true
ReadFullReturn ==
  /\ pc = "ReadFull"
  /\ peOut.state = "loop"
  /\ ~WLess(peOut.total, peIn.len)
  /\ peOut' = [peOut EXCEPT !.state = "done", !.ok = TRUE]
  /\ UNCHANGED <<ar, fd, size, comment, files, uncompressedSize, compressedSize, ec, d, i, pc, br, iolog, hdrIn, hdrOut, peIn>>

InitReadFull ==
  /\ ReaderInit(NoArchive)
  /\ pc = "ReadFull"
  /\ hdrIn = NoEntry
  /\ hdrOut = NotCalled
  /\ peIn \in {[len |-> n] : n \in ReadLens}
  /\ peOut = ReadFull0

NextReadFull == ReadFullTurn \/ ReadFullReturn

\* the thread that called ReadFull keeps running it
SpecReadFull == InitReadFull /\ [][NextReadFull]_vars /\ WF_vars(NextReadFull)

----------------------------------------------------------------------------
(* Claims about ReadFull (SpecReadFull).                                   *)

RECURSIVE GotSum(_, _)
GotSum(log, k) == IF k = 0 THEN WZero ELSE WAdd(GotSum(log, k - 1), log[k].got)

ReadFullSafe ==
  pc = "ReadFull" =>
    LET log == peOut.log
        n == Len(log)
    IN  /\ ~WLess(peIn.len, peOut.total)
        /\ GotSum(log, n) = peOut.total
        /\ \A k \in 1..n :
             /\ WLess(log[k].before, peIn.len)
             /\ WLessEq(log[k].requested, WSub(peIn.len, log[k].before))
             /\ log[k].got = WZero => (k = n /\ peOut.state = "done" /\ ~peOut.ok)
             /\ (log[k].got = WZero /\ ~log[k].failed) => peOut.code = "ERROR_HANDLE_EOF"
             /\ log[k].failed => peOut.code = "ReadFile: "
        /\ (peOut.state = "done" /\ peOut.ok) => (peOut.total = peIn.len /\ peOut.code = "")
        /\ (peOut.state = "done" /\ ~peOut.ok) => (n > 0 /\ log[n].got = WZero)

\* C21: ReadFull returns true only with exactly len bytes obtained; every
\* read requests at most len minus the bytes obtained so far and the total
\* never exceeds len; a read of zero bytes before len is reached ends the
\* call at once with the end-of-file error, a failed read with the read
\* error; and the call returns.
C21_ReadFull == [](ReadFullSafe) /\ <>(pc = "ReadFull" /\ peOut.state = "done")

\* C21 witness: 3 bytes obtained over more than one read
C21_Witness ==
  /\ pc = "ReadFull" /\ peOut.state = "done" /\ peOut.ok
  /\ peIn.len = WOfInt(3) /\ Len(peOut.log) > 1

\* a call that ended with the end-of-file error after some bytes
C21_EofReached ==
  /\ pc = "ReadFull" /\ peOut.state = "done" /\ peOut.code = "ERROR_HANDLE_EOF"
  /\ peOut.total # WZero

----------------------------------------------------------------------------
(* Two query methods of one File run by two threads.  Both use the File's   *)
(* one handle fd: LookupOverlay calls PositionAt (SetFilePointerEx,         *)
(* src/unnamed/part_004 lines 540-548) and then ReadFull (ReadFile without  *)
(* an offset, pe.hpp lines 418-434), and LookupExports reads its section    *)
(* through readSectionData, which is not in the sources and is modelled as  *)
(* ReadAt(Offset, Size) (pe.hpp lines 436-441).  The handle's file pointer  *)
(* is the one piece of state the two calls share.  The byte at offset k of  *)
(* the file is written k, so the data a call obtained is the sequence of    *)
(* the offsets it was read from.                                            *)

MaxFile == 5

Threads == {1, 2}

\* the seek and the read of LookupOverlay for a file whose sections end at start
OverlayQuery(sz, start) == [method |-> "LookupOverlay", pos |-> start, len |-> sz - start]

\* the seek and the read of LookupExports for a section at off of n bytes
ExportsQuery(off, n) == [method |-> "LookupExports", pos |-> off, len |-> n]

\* files of 2 .. MaxFile bytes with one section before the overlay
ReaderInputs ==
  {[size |-> sz, q |-> <<OverlayQuery(sz, st), OverlayQuery(sz, st)>>] : sz \in 2..MaxFile, st \in 1..(MaxFile - 1)}
    \cup {[size |-> sz, q |-> <<OverlayQuery(sz, st), ExportsQuery(o, n)>>] : sz \in 2..MaxFile, st \in 1..(MaxFile - 1), o \in 0..1, n \in 1..2}

Thread0 == [at |-> "seek", total |-> 0, data |-> <<>>, ok |-> FALSE, code |-> ""]

\* the offsets k .. k + n - 1
Run(k, n) == [j \in 1..n |-> k + j - 1]

\* PositionAt / Seek: SetFilePointerEx(fd, pos, SEEK_SET)
ThreadSeek(t) ==
  /\ pc = "Readers"
  /\ peOut.th[t].at = "seek"
  /\ peOut' = [peOut EXCEPT !.fp = peIn.q[t].pos, !.th[t].at = "read"]
  /\ UNCHANGED <<ar, fd, size, comment, files, uncompressedSize, compressedSize, ec, d, i, pc, br, iolog, hdrIn, hdrOut, peIn>>

\* one turn of ReadFull's loop: ReadFile at the handle's file pointer
ThreadRead(t) ==
  /\ pc = "Readers"
  /\ peOut.th[t].at = "read"
  /\ LET me == peOut.th[t]
         want == peIn.q[t].len - me.total
         left == IF peOut.fp < peIn.size THEN peIn.size - peOut.fp ELSE 0
         dwSize == IF want < left THEN want ELSE left
     IN  IF dwSize = 0
         THEN peOut' = [peOut EXCEPT !.th[t].at = "done", !.th[t].code = "ERROR_HANDLE_EOF"]
         ELSE peOut' = [peOut EXCEPT !.fp = @ + dwSize,
                                     !.th[t].total = @ + dwSize,
                                     !.th[t].data = @ \o Run(peOut.fp, dwSize),
                                     !.th[t].at = IF me.total + dwSize = peIn.q[t].len THEN "done" ELSE "read",
                                     !.th[t].ok = (me.total + dwSize = peIn.q[t].len)]
  /\ UNCHANGED <<ar, fd, size, comment, files, uncompressedSize, compressedSize, ec, d, i, pc, br, iolog, hdrIn, hdrOut, peIn>>

InitReaders ==
  /\ ReaderInit(NoArchive)
  /\ pc = "Readers"
  /\ hdrIn = NoEntry
  /\ hdrOut = NotCalled
  /\ peIn \in {x \in ReaderInputs : x.q[1].pos < x.size /\ \A t \in Threads : x.q[t].pos + x.q[t].len <= x.size}
  /\ peOut = [fp |-> 0, th |-> [t \in Threads |-> Thread0]]

NextReaders == \E t \in Threads : ThreadSeek(t) \/ ThreadRead(t)

SpecReaders == InitReaders /\ [][NextReaders]_vars

----------------------------------------------------------------------------
(* Claims about concurrent readers (SpecReaders).                          *)

\* what the call of thread t returns when it runs alone
Alone(t) == Run(peIn.q[t].pos, peIn.q[t].len)

\* C22: each of two concurrent query calls on one File returns the outcome
\* and the data it returns when run alone, under every interleaving of the
\* seeks and reads.
C22_Original ==
  pc = "Readers" =>
    \A t \in Threads : peOut.th[t].at = "done" => (peOut.th[t].ok /\ peOut.th[t].data = Alone(t))

----------------------------------------------------------------------------
(* A second OpenReader / NewFile call on the same object.                  *)
(* Reader::OpenReader(HANDLE, int64_t, error_code&) is zip.cc lines         *)
(* 366-382; File::NewFile(HANDLE, int64_t, error_code&) is pe.hpp lines     *)
(* 540-548, whose parseFile is not in the sources: whether it succeeds is   *)
(* an input, and what it decodes is the token parsed.  The PE File object   *)
(* is peOut = [fd, size, parsed]; its error code is ec.                     *)

\* the test left out
alreadyOpenedNever(h) == FALSE

\* zip.cc line 367: fd != INVALID_HANDLE_VALUE
alreadyOpened(h) == h # "INVALID_HANDLE_VALUE"

\* zip.cc lines 366-381: OpenReader called on a Reader that an earlier call
\* has returned from
OpenReaderAgain ==
  /\ pc \in {"done", "failed", "rejected"}
  /\ IF alreadyOpened(fd)
     THEN /\ ec' = ErrOpened
          /\ pc' = "rejected"
          /\ UNCHANGED <<fd, size>>
     ELSE /\ fd' = "nfd"
          /\ size' = ar.size
          /\ pc' = "readDirectoryEnd"
          /\ UNCHANGED ec
  /\ UNCHANGED <<ar, comment, files, uncompressedSize, compressedSize, d, i, br, iolog, hdrIn, hdrOut, peIn, peOut>>

PeFile0 == [fd |-> "INVALID_HANDLE_VALUE", size |-> 0, parsed |-> "nothing"]

\* pe.hpp line 541: fd != INVALID_HANDLE_VALUE
peOpened(h) == h # "INVALID_HANDLE_VALUE"

\* pe.hpp lines 540-548: NewFile(fd_, sz, ec), on a fresh File or on one an
\* earlier call has returned from
PeNewFileHandle ==
  /\ pc \in {"peNew", "peDone", "peFailed", "peRejected"}
  /\ IF peOpened(peOut.fd)
     THEN /\ ec' = ErrOpened
          /\ pc' = "peRejected"
          /\ UNCHANGED peOut
     ELSE /\ peOut' = [fd |-> "fd_", size |-> peIn.sz, parsed |-> IF peIn.parseOk THEN "headers" ELSE "partly"]
          /\ ec' = IF peIn.parseOk THEN ec ELSE "parseFile"
          /\ pc' = IF peIn.parseOk THEN "peDone" ELSE "peFailed"
  /\ UNCHANGED <<ar, fd, size, comment, files, uncompressedSize, compressedSize, d, i, br, iolog, hdrIn, hdrOut, peIn>>

\* archives that differ in their entries and declared entry count
ReopenArchives == {MkArchive(q) : q \in EntryChoices}

InitReopen ==
  /\ hdrIn = NoEntry
  /\ hdrOut = NotCalled
  /\ peOut = PeFile0
  /\ \/ /\ \E a \in ReopenArchives : ReaderInit(a)
        /\ pc = "new"
        /\ peIn = [sz |-> 0, parseOk |-> FALSE]
     \/ /\ ReaderInit(NoArchive)
        /\ pc = "peNew"
        /\ peIn \in {[sz |-> z, parseOk |-> b] : z \in {0, 64, 4096}, b \in BOOLEAN}

NextReopen == Next \/ OpenReaderAgain \/ PeNewFileHandle

SpecReopen == InitReopen /\ [][NextReopen]_vars

----------------------------------------------------------------------------
(* Claims about repeated construction (SpecReopen).                        *)

\* a step that is an OpenReader call on a Reader whose handle is set
ReaderCalledAgain == pc \in {"done", "failed", "rejected"} /\ fd # "INVALID_HANDLE_VALUE" /\ pc' \in {"rejected", "readDirectoryEnd"}

\* a step that is a NewFile call on a File whose handle is set
FileCalledAgain == pc \in {"peDone", "peFailed", "peRejected"} /\ peOut.fd # "INVALID_HANDLE_VALUE" /\ pc' \in {"peDone", "peFailed", "peRejected"}

\* C23: an OpenReader / NewFile call on an object whose handle is set fails
\* with the 'file has been opened' error and leaves the handle, the size and
\* every decoded field as they were, whether the first call succeeded or
\* failed while parsing.
C23_OpenedOnce ==
  [][/\ ReaderCalledAgain =>
          /\ pc' = "rejected" /\ ec' = ErrOpened
          /\ UNCHANGED <<fd, size, comment, files, uncompressedSize, compressedSize, d>>
     /\ FileCalledAgain =>
          /\ pc' = "peRejected" /\ ec' = ErrOpened
          /\ UNCHANGED peOut]_vars

\* C23 witness: a Reader whose first call failed before all the declared
\* entries were read has rejected a second call
C23_Witness ==
  /\ pc = "rejected" /\ ec = ErrOpened /\ fd = "nfd"
  /\ Len(files) > 0 /\ WLess(WOfInt(Len(files)), d.directoryRecords)

\* a File whose first call failed in parseFile has rejected a second call
C23_FileRejected == pc = "peRejected" /\ ec = ErrOpened /\ peOut.parsed = "partly"

----------------------------------------------------------------------------
(* Further claims about readDirectoryHeader (SpecHdr).                     *)

\* the entry's one extended-timestamp field of at least 5 bytes, when the
\* chain holds exactly one and holds no NTFS field
OneExtTime == Cardinality(FieldsOf(hdrIn.xf, {extTimeExtraID})) = 1 /\ FieldsOf(hdrIn.xf, {ntfsExtraID}) = {}

TheExtTime == hdrIn.xf[FirstOf(FieldsOf(hdrIn.xf, {extTimeExtraID}))]

\* the time the claim gives an entry with the field f
ExtTimeOf(f) == IF f.vals[1][1] % 2 = 1 THEN FromUnixSeconds(f.vals[2]) ELSE FromDosDateTime(hdrIn.dosDate, hdrIn.dosTime)

\* C24: with bit 0 of the flag byte set the entry's time is the 4-byte Unix
\* time after the flag byte, for every value of it; with bit 0 clear it is
\* the DOS date/time.
C24_Original ==
  (HeaderDecoded /\ hdrOut.ok /\ OneExtTime /\ TheExtTime.size >= 5) => hdrOut.file.time = ExtTimeOf(TheExtTime)

\* the same for timestamps other than 0
C24_NonZero ==
  (HeaderDecoded /\ hdrOut.ok /\ OneExtTime /\ TheExtTime.size >= 5 /\ TheExtTime.vals[2] # WZero) => hdrOut.file.time = ExtTimeOf(TheExtTime)

----------------------------------------------------------------------------
(* The extra-field loop of readDirectoryHeader (zip.cc lines 223-304), one *)
(* iteration at a time.  hdrOut = [at, cursor, st]: cursor is the part of   *)
(* the extra buffer not yet consumed, st the locals the loop updates.       *)

\* a declared length never found too long
fieldCutNever(rest, fieldSize) == FALSE

\* line 226: extra.Size() < fieldSize, after the tag and length were read
fieldCut(rest, fieldSize) == Len(rest) < fieldSize

\* line 223: extra.Size() >= 4
loopGuard(extra) == Len(extra) >= 4

ExtraLoop0(e) == [at |-> "loop", cursor |-> e.extra, st |-> Locals0(fixedFields(e)), past |-> FALSE]

\* lines 223-303: one iteration
ExtraIteration ==
  /\ pc = "extra"
  /\ hdrOut.at = "loop"
  /\ loopGuard(hdrOut.cursor)
  /\ LET fieldTag == Read16(hdrOut.cursor)
         fieldSize == Read16(Drop(hdrOut.cursor, 2))
         rest == Drop(hdrOut.cursor, 4)
     IN  IF fieldCut(rest, fieldSize)
         THEN hdrOut' = [hdrOut EXCEPT !.at = "break", !.cursor = rest]
         ELSE LET have == Min(fieldSize, Len(rest))
                  st2 == extraField(fieldTag, Take(rest, have), hdrOut.st)
              IN  hdrOut' = [at |-> IF st2.failed THEN "failed" ELSE "loop",
                             cursor |-> Drop(rest, have),
                             st |-> st2,
                             past |-> hdrOut.past \/ fieldSize > Len(rest)]
  /\ UNCHANGED <<ar, fd, size, comment, files, uncompressedSize, compressedSize, ec, d, i, pc, br, iolog, hdrIn, peIn, peOut>>

\* line 223: fewer than 4 bytes are left and the loop is over
ExtraLoopEnd ==
  /\ pc = "extra"
  /\ hdrOut.at = "loop"
  /\ ~loopGuard(hdrOut.cursor)
  /\ hdrOut' = [hdrOut EXCEPT !.at = "end"]
  /\ UNCHANGED <<ar, fd, size, comment, files, uncompressedSize, compressedSize, ec, d, i, pc, br, iolog, hdrIn, peIn, peOut>>

\* entries that differ in their sentinels and extra chains
ExtraInputs == {Entry(directoryHeaderSignature, 8, <<33, 0>>, cs, us, pos, xf, "no") : cs \in {W32(10, 0), SizeMin}, us \in {W32(20, 0), SizeMin}, pos \in {WZero, OffsetMin}, xf \in Chains(MaxFields)}

InitExtra ==
  /\ ReaderInit(NoArchive)
  /\ pc = "extra"
  /\ hdrIn \in ExtraInputs
  /\ hdrOut = ExtraLoop0(hdrIn)
  /\ peIn = NoPe
  /\ peOut = NoPeOut

NextExtra == ExtraIteration \/ ExtraLoopEnd

SpecExtra == InitExtra /\ [][NextExtra]_vars

----------------------------------------------------------------------------
(* Claims about the extra-field loop (SpecExtra).                          *)

KnownTags == {zip64ExtraID, ntfsExtraID, unixExtraID, infoZipUnixExtraID, extTimeExtraID, winzipAesExtraID}

\* the tag and declared length of the triple at the head of the cursor
HeadTag == hdrOut.cursor[1] + 256 * hdrOut.cursor[2]

HeadLen == hdrOut.cursor[3] + 256 * hdrOut.cursor[4]

\* a step of the loop from a cursor of at least 4 bytes
Iterates == pc = "extra" /\ hdrOut.at = "loop" /\ Len(hdrOut.cursor) >= 4 /\ hdrOut' # hdrOut

\* C25: an iteration consumes at least 4 bytes and never more than the
\* cursor holds; a triple whose declared length exceeds what is left ends
\* the loop with no field changed; a triple with an unrecognized tag changes
\* no field and leaves the cursor exactly 4 + length bytes further on, the
\* loop going on.
C25_SkipUnknown ==
  [][Iterates =>
       /\ Len(hdrOut'.cursor) <= Len(hdrOut.cursor) - 4
       /\ ~hdrOut'.past
       /\ HeadLen > Len(hdrOut.cursor) - 4 => (hdrOut'.at = "break" /\ hdrOut'.st = hdrOut.st)
       /\ HeadLen <= Len(hdrOut.cursor) - 4 => hdrOut'.cursor = SubSeq(hdrOut.cursor, 4 + HeadLen + 1, Len(hdrOut.cursor))
       /\ (HeadLen <= Len(hdrOut.cursor) - 4 /\ HeadTag \notin KnownTags) => (hdrOut'.st = hdrOut.st /\ hdrOut'.at = "loop")]_vars

\* C25 witness: an unrecognized field was skipped and the UNIX field behind
\* it was decoded
C25_Witness ==
  /\ pc = "extra" /\ hdrOut.at = "end"
  /\ Len(hdrIn.xf) = 2 /\ hdrIn.xf[1].tag \notin KnownTags /\ hdrIn.xf[2].tag = unixExtraID /\ hdrIn.xf[2].size = 8
  /\ hdrOut.st.file.time = FromUnixSeconds(MTime)

\* the loop taken step by step ends with the locals parseExtra computes
ExtraAgrees ==
  (pc = "extra" /\ hdrOut.at \in {"end", "break", "failed"}) => hdrOut.st = parseExtra(hdrIn.extra, Locals0(fixedFields(hdrIn)))

----------------------------------------------------------------------------
(* findSignatureInBlock (zip.cc lines 65-75) on the bytes of a buffer.  A   *)
(* buffer is a sequence of bytes; the code's b[i] is bytes[i + 1].          *)

\* the buffer's byte at the code's index i
At(bytes, ix) == bytes[ix + 1]

\* line 67: the four signature bytes at i, tested left to right
sigAt(bytes, ix) == At(bytes, ix) = 80 /\ At(bytes, ix + 1) = 75 /\ At(bytes, ix + 2) = 5 /\ At(bytes, ix + 3) = 6

\* the indexes line 67 reads at i
sigReads(bytes, ix) ==
  {ix} \cup (IF At(bytes, ix) = 80 THEN {ix + 1} ELSE {})
      \cup (IF At(bytes, ix) = 80 /\ At(bytes, ix + 1) = 75 THEN {ix + 2} ELSE {})
      \cup (IF At(bytes, ix) = 80 /\ At(bytes, ix + 1) = 75 /\ At(bytes, ix + 2) = 5 THEN {ix + 3} ELSE {})

\* line 68: the comment length at i + 20, i + 21
commentLenAt(bytes, ix) == At(bytes, ix + directoryEndLen - 2) + 256 * At(bytes, ix + directoryEndLen - 1)

\* a comment taken to fit wherever the signature is
commentFitsAlways(n, ix, blockSize) == TRUE

\* line 69: n + directoryEndLen + i <= b.size()
commentFits(n, ix, blockSize) == n + directoryEndLen + ix <= blockSize

\* lines 66-74: the scan from index i downwards; yields the index returned
\* and the indexes read
RECURSIVE scanDown(_, _, _)
scanDown(bytes, ix, reads) ==
  IF ix < 0 THEN [p |-> -1, reads |-> reads]
  ELSE IF sigAt(bytes, ix)
       THEN IF commentFits(commentLenAt(bytes, ix), ix, Len(bytes))
            THEN [p |-> ix, reads |-> reads \cup sigReads(bytes, ix) \cup {ix + directoryEndLen - 2, ix + directoryEndLen - 1}]
            ELSE scanDown(bytes, ix - 1, reads \cup sigReads(bytes, ix) \cup {ix + directoryEndLen - 2, ix + directoryEndLen - 1})
       ELSE scanDown(bytes, ix - 1, reads \cup sigReads(bytes, ix))

\* lines 65-75
findSignatureScan(bytes) == scanDown(bytes, Len(bytes) - directoryEndLen, {})

\* the bytes of an end record's signature and of a comment length
SigBytes == <<80, 75, 5, 6>>

\* bytes with patch written at index at (what falls outside is dropped)
Patch(bytes, at, patch) == [k \in 1..Len(bytes) |-> IF k - 1 >= at /\ k - 1 < at + Len(patch) THEN patch[k - at] ELSE bytes[k]]

\* bytes with the signature written at i and the comment length n at i + 20
WithRecord(bytes, r) == Patch(Patch(bytes, r.i, SigBytes), r.i + directoryEndLen - 2, Enc16(r.n))

BlockLens == {0, 3, 21, 22, 23, 24, 44, 46}

\* where records are written, and the comment lengths they declare
RecordChoices == {[i |-> ix, n |-> n] : ix \in {0, 1, 2, 20, 22, 24}, n \in {0, 1, 2, 22, 24, 256}}

Zeros(n) == [k \in 1..n |-> 0]

\* buffers of zeros with no, one or two records written into them
ScanInputs ==
  {Zeros(n) : n \in BlockLens}
    \cup {WithRecord(Zeros(n), r) : n \in BlockLens, r \in RecordChoices}
    \cup {WithRecord(WithRecord(Zeros(n), r), q) : n \in BlockLens, r \in RecordChoices, q \in RecordChoices}

NoScan == [called |-> FALSE]

CallFindSignature ==
  /\ pc = "findSignatureInBlock"
  /\ peOut = NoScan
  /\ LET r == findSignatureScan(peIn.bytes)
     IN  peOut' = [called |-> TRUE, p |-> r.p, reads |-> r.reads]
  /\ UNCHANGED <<ar, fd, size, comment, files, uncompressedSize, compressedSize, ec, d, i, pc, br, iolog, hdrIn, hdrOut, peIn>>

InitScan ==
  /\ ReaderInit(NoArchive)
  /\ pc = "findSignatureInBlock"
  /\ hdrIn = NoEntry
  /\ hdrOut = NotCalled
  /\ peIn \in {[bytes |-> b] : b \in ScanInputs}
  /\ peOut = NoScan

NextScan == CallFindSignature

SpecScan == InitScan /\ [][NextScan]_vars

----------------------------------------------------------------------------
(* Claims about findSignatureInBlock (SpecScan).                           *)

ScanCalled == pc = "findSignatureInBlock" /\ peOut.called

\* the bytes at j .. j + 3 are 'P','K',5,6
HasSig(j) == SubSeq(peIn.bytes, j + 1, j + 4) = SigBytes

\* index j holds the signature and the comment it declares ends inside the block
ValidAt(j) ==
  /\ j >= 0 /\ j <= Len(peIn.bytes) - 22
  /\ HasSig(j)
  /\ peIn.bytes[j + 21] + 256 * peIn.bytes[j + 22] + 22 + j <= Len(peIn.bytes)

\* C26: the index returned is the greatest index in [0, size - 22] with the
\* signature and a comment length that fits, -1 exactly when there is none,
\* and no byte at an index >= size is read.
C26_GreatestValid ==
  ScanCalled =>
    /\ peOut.p = -1 <=> ~\E j \in 0..(Len(peIn.bytes) - 22) : ValidAt(j)
    /\ peOut.p # -1 => (ValidAt(peOut.p) /\ \A j \in (peOut.p + 1)..(Len(peIn.bytes) - 22) : ~ValidAt(j))
    /\ \A k \in peOut.reads : k >= 0 /\ k < Len(peIn.bytes)

\* C26 witness: a signature whose comment runs past the end was passed over
\* for an earlier valid one
C26_Witness ==
  /\ ScanCalled /\ peOut.p >= 0
  /\ \E j \in (peOut.p + 1)..(Len(peIn.bytes) - 22) : HasSig(j) /\ ~ValidAt(j)

----------------------------------------------------------------------------
(* Further claims about readDirectoryEnd (Spec).                           *)

\* readDirectoryEnd has just returned true
DirectoryEndOk == pc = "checkRecords"

\* readDirectoryEnd has just returned false
DirectoryEndFailed == pc = "failed" /\ ~EntryIo /\ ec # ErrTOC

\* C27: readDirectoryEnd returns success only when the resolved directory
\* offset o satisfies 0 <= o < size, and fails with 'not a valid zip file'
\* otherwise.
C27_Original ==
  DirectoryEndOk => (~WNegative(d.directoryOffset) /\ WLess(d.directoryOffset, WOfInt(size)))

\* the fixed header holds 0xFFFFFFFF in one of the three fields
Sentinels == {f \in {"uncompressedSize", "compressedSize", "position"} : hdrIn[f] = W32(65535, 65535)}

\* C28: an entry with 0xFFFFFFFF in uncompressed size, compressed size or
\* local-header offset and no Zip64 field to supply the value fails to
\* decode, for each of the three fields.
C28_Original ==
  (HeaderDecoded /\ Sentinels # {} /\ FieldsOf(hdrIn.xf, {zip64ExtraID}) = {}) => ~hdrOut.ok

\* the same for the compressed size and the local-header offset alone
C28_SizeAndOffset ==
  (HeaderDecoded /\ Sentinels \cap {"compressedSize", "position"} # {} /\ FieldsOf(hdrIn.xf, {zip64ExtraID}) = {}) => ~hdrOut.ok

\* C29: readDirectoryEnd never reports 'zip: invalid comment length': the
\* comment length of the record findSignatureInBlock accepted is at most the
\* bytes of the block behind the 22-byte record, and the comment assigned
\* lies inside the block that was read.
C29_CommentFits ==
  /\ ec # ErrCommentLen
  /\ (AfterDirectoryEnd /\ d.comment # <<0, 0>>) =>
       /\ d.comment[1] = d.commentLen
       /\ d.comment[2] + d.comment[1] <= ar.size
       /\ \E k \in BlockReads : iolog[k].pos + directoryEndLen <= d.comment[2]

\* C29 witness: the record accepted declares a comment that ends exactly at
\* the end of the file, and the comment was assigned
C29_Witness ==
  /\ DirectoryEndOk /\ d.commentLen > 0 /\ d.comment = <<d.commentLen, ar.size - d.commentLen>>
  /\ \E c \in ar.eocds : c.n = d.commentLen /\ c.n + directoryEndLen = c.back

----------------------------------------------------------------------------
(* Further claims about bela::pe::File::NewFile (SpecPE).                  *)

\* NewFile has returned std::nullopt
PeRefused == pc = "pe" /\ peOut # NoPeOut /\ ~peOut.ok

\* C30: whenever NewFile returns no file, ec holds a non-zero error code,
\* also after a short read of the DOS header, the signature or the
\* FileHeader at the end of the file.
C30_Original == PeRefused => peOut.code # 0

\* the same for refusals other than short reads
C30_NotShortRead ==
  (PeRefused /\ (peOut.reads = <<>> \/ LET r == peOut.reads[Len(peOut.reads)] IN r[1] + r[2] <= peIn.size)) => peOut.code # 0

====
